---- MODULE Spec2Model ----
(***************************************************************************)
(* State-machine model of the service lifecycle of waku-codex-react:       *)
(* WakuService (src/src/services/waku/WakuService.ts) and CodexService     *)
(* (src/unnamed/part_008), both built on TypedEventEmitter.                *)
(*                                                                         *)
(* One behaviour follows ONE service instance; svc says of which class.    *)
(* JavaScript runs one continuation at a time, so every action is one      *)
(* synchronous run of code: a public call up to its first await on the     *)
(* transport, or the continuation that runs when an awaited transport      *)
(* promise settles (up to the next such await).  The outcome of every      *)
(* transport promise (createLightNode, start, dial, waitForRemotePeer,     *)
(* stop, filter.subscribe, HTTP GET) is chosen by the environment.         *)
(***************************************************************************)
EXTENDS Integers, Sequences, FiniteSets, TLC

\* ---------------------------------------------------------------- bounds
MaxBootstrap == 2        \* longest bootstrap list (config.bootstrap)
MaxTasks == 3            \* accepted calls and reconnection cycles per behaviour
MaxTime == 62000         \* the clock stops here (ms)
MaxSubscribes == 1       \* subscribe() calls per behaviour
NumTopics == 1           \* distinct topic keys
MaxMsgs == 2             \* messages the transport hands to subscription callbacks
MaxPublishes == 1        \* publish() calls per behaviour
MaxTransfers == 1        \* upload() / download() calls of the hooks per behaviour
NumHandlers == 2         \* distinct handler functions given to a TypedEventEmitter
MaxRegs == 2             \* on() / once() calls per behaviour
MaxEmits == 2            \* emit() calls per behaviour
MaxHookCalls == 3        \* connect() / disconnect() calls of a service hook per behaviour

Topics == 1..NumTopics

VARIABLES
    svc,                \* "waku" | "codex": the class of the instance
    bootLen,            \* WakuService: length of config.bootstrap (candidates 1..bootLen)
    status,             \* _status
    node,               \* WakuService.node: 0 = null, else the id of a LightNode
    nodes,              \* every LightNode created so far: id -> "created"|"started"|"stopped"
    conns,              \* id -> number of open connections of the node (getConnections().length)
    peerCheckInterval,  \* WakuService.peerCheckInterval: 0 = undefined, else a timer id
    timers,             \* the interval timers that are running
    subscriptions,      \* WakuService.subscriptions: topic -> subscription id (0 = no entry)
    subs,               \* every subscription created: id -> [topic, state, node, invoked, inflight, user]
    delivered,          \* the transport's calls of messageHandler, in order, with their outcome
    messages,           \* useWakuMessages: the messages state, fed by the application handler
    transfers,          \* useFileUpload / useFileDownload: id -> the entry of the hook's Map
    tasks,              \* every accepted call / reconnection cycle, in order of start
    noop,               \* the call that returned at its guard in the last step, else "none"
    lastStatusCheck,    \* CodexService.lastStatusCheck: -1 = null, else the time of the check
    lastNodeActive,     \* CodexService.lastNodeActive
    nodeInfo,           \* CodexService._nodeInfo: 0 = undefined, 1 = set
    now,                \* Date.now()
    handlers,           \* TypedEventEmitter.handlers: event -> the Set, in insertion order
    emitLog,            \* what the emit calls did: the last emission, invocations of once handlers
    parsed,             \* the parseUploadResponse calls made: << >> or <<[in, out]>>
    hook,               \* useService: status, error, service, serviceRef.current and its calls
    insts               \* the service instances the hook created: [status, listening]

vars == <<svc, bootLen, status, node, nodes, conns, peerCheckInterval, timers,
          subscriptions, subs, delivered, messages, transfers, tasks, noop,
          lastStatusCheck, lastNodeActive, nodeInfo, now, handlers, emitLog, parsed,
          hook, insts>>

wakuRes == <<node, nodes, conns, peerCheckInterval, timers, subscriptions, subs>>
codexRes == <<lastStatusCheck, lastNodeActive, nodeInfo, now>>

\* The emitter and the parser, which only their own steps change; the
\* configuration, which no step changes; the message log and the hook's
\* list, which only a delivery changes; the transfers, which only the steps of
\* the transfer hooks change.
util == <<handlers, emitLog, parsed, hook, insts>>
fixed == <<svc, bootLen, delivered, messages, transfers, util>>

\* ------------------------------------------------------- events and errors
ServiceStatus == {"idle", "connecting", "connected", "disconnected", "error"}

Err(typed, code) == [typed |-> typed, code |-> code]
RawError == Err(FALSE, "raw")

StatusChange(s) == [name |-> "statusChange", arg |-> s, typed |-> TRUE]
ErrorEvent(e) == [name |-> "error", arg |-> e.code, typed |-> e.typed]
ConnectEvent == [name |-> "connect", arg |-> "", typed |-> TRUE]
DisconnectEvent == [name |-> "disconnect", arg |-> "", typed |-> TRUE]

\* Mutant: setStatus emits statusChange on every call.
setStatusAlways(cur, s) == [status |-> s, ev |-> <<StatusChange(s)>>]

\* setStatus: assigns and emits statusChange only when the value changes.
setStatus(cur, s) ==
    [status |-> s, ev |-> IF cur # s THEN <<StatusChange(s)>> ELSE <<>>]

\* handleError: wraps an untyped error with the given code, sets 'error', emits.
handleError(cur, error, code) ==
    LET typedError == IF error.typed THEN error ELSE Err(TRUE, code)
        st == setStatus(cur, "error")
    IN  [status |-> st.status, ev |-> st.ev \o <<ErrorEvent(typedError)>>]

\* ------------------------------------------------------------------ tasks
NewTask(kind, pc, at) ==
    [kind |-> kind, pc |-> pc, at |-> at, idx |-> 0, connected |-> FALSE,
     used |-> 0, errors |-> <<>>, dials |-> <<>>, emitted |-> <<>>,
     result |-> "pending", thrown |-> "none", target |-> 0, force |-> FALSE]

Out(t, st, tm) == [t |-> t, status |-> st, tm |-> tm]

Pending(i) == tasks[i].result = "pending"

\* The fields of a task beyond kind, pc and the locals of its code (idx,
\* connected, target) are a record of what the call did, kept for the claims.
\* The record of a settled call stays for the one state that follows its
\* settling; the next step of the instance reduces it to its kind.
Gone(kind) == [NewTask(kind, "gone", "") EXCEPT !.result = "settled"]
Retire(ts) == [i \in DOMAIN ts |-> IF ts[i].result = "pending" THEN ts[i] ELSE Gone(ts[i].kind)]
old == Retire(tasks)
JustSettled(i) == tasks[i].pc = "done"
TasksOf(kind) == {i \in DOMAIN tasks : tasks[i].kind = kind}

Init ==
    /\ \/ svc = "waku" /\ bootLen \in 1..MaxBootstrap
       \/ svc = "codex" /\ bootLen = 0
    /\ status = "idle"
    /\ node = 0
    /\ nodes = << >>
    /\ conns = << >>
    /\ peerCheckInterval = 0
    /\ timers = {}
    /\ subscriptions = [tp \in Topics |-> 0]
    /\ subs = << >>
    /\ delivered = << >>
    /\ messages = << >>
    /\ transfers = << >>
    /\ tasks = << >>
    /\ noop = "none"
    /\ lastStatusCheck = -1
    /\ lastNodeActive = FALSE
    /\ nodeInfo = 0
    /\ now = 0
    /\ handlers = [e \in {"statusChange", "error"} |-> << >>]
    /\ emitLog = [n |-> 0, calls |-> << >>, errors |-> 0, propagated |-> FALSE,
                  regs |-> 0, onceCalls |-> << >>,
                  op |-> [name |-> "none", event |-> "none", fn |-> 0, present |-> FALSE]]
    /\ parsed = << >>
    /\ hook = [status |-> "idle", error |-> FALSE, service |-> 0, ref |-> 0,
               calls |-> << >>, last |-> 0]
    /\ insts = << >>

\* ============================================================ WakuService
\* Mutant: the guard forgets the 'connecting' state.
WakuConnectGuardOnlyConnected(s) == s = "connected"

\* connect's guard (the early return): TRUE when the call is a no-op.
WakuConnectGuard(s) == s \in {"connected", "connecting"}

\* Mutant: the guard forgets the 'idle' state.
WakuDisconnectGuardOnlyDisconnected(s) == s = "disconnected"

\* disconnect's guard (the early return): TRUE when the call is a no-op.
WakuDisconnectGuard(s) == s \in {"disconnected", "idle"}

\* A throw that reaches the catch of connect (handleError, rethrow: the promise
\* rejects) or of attemptReconnection (handleError only: the error is swallowed).
WakuThrow(t, st, error) ==
    LET h == handleError(st, error,
                 IF t.kind = "connect" THEN "CONNECTION_FAILED" ELSE "RECONNECTION_FAILED")
    IN  Out([t EXCEPT !.pc = "done",
                      !.result = IF t.kind = "connect" THEN "rejected" ELSE "resolved",
                      !.thrown = error.code,
                      !.emitted = @ \o h.ev],
            h.status, FALSE)

\* The tail of connect (startPeerMonitoring, setStatus('connected'),
\* emit('connect')) or of attemptReconnection (setStatus('connected')).
\* Mutant: a reconnection cycle that succeeded sets no status.
WakuFinishSilent(t, st) ==
    LET s == setStatus(st, "connected")
    IN  IF t.kind = "connect"
        THEN Out([t EXCEPT !.pc = "done", !.result = "resolved",
                           !.emitted = @ \o s.ev \o <<ConnectEvent>>],
                 s.status, TRUE)
        ELSE Out([t EXCEPT !.pc = "done", !.result = "resolved"], st, FALSE)

WakuFinish(t, st) ==
    LET s == setStatus(st, "connected")
    IN  Out([t EXCEPT !.pc = "done", !.result = "resolved",
                      !.emitted = @ \o s.ev \o
                          (IF t.kind = "connect" THEN <<ConnectEvent>> ELSE <<>>)],
            s.status, t.kind = "connect")

\* waitForPeers: returns at once when the handle is null, else awaits
\* waitForRemotePeer on the handle.
waitForPeers(t, st, nd) ==
    IF nd = 0 THEN WakuFinish(t, st)
    ELSE Out([t EXCEPT !.pc = "wait", !.target = nd], st, FALSE)

\* The loop of connectToBootstrapNodes from candidate i on, run until it awaits
\* a dial or ends.  this.node is read anew for every candidate: on a null handle
\* the call throws inside the loop's try and the error is pushed like a failed
\* dial.  After the loop, BOOTSTRAP_FAILED unless a dial succeeded.
RECURSIVE BootstrapLoop(_, _, _, _)
BootstrapLoop(t, st, nd, i) ==
    IF i > bootLen
    THEN IF t.connected THEN waitForPeers(t, st, nd)
         ELSE WakuThrow(t, st, Err(TRUE, "BOOTSTRAP_FAILED"))
    ELSE IF nd = 0
         THEN BootstrapLoop([t EXCEPT !.errors = Append(@, i),
                                      !.dials = Append(@, [peer |-> i, node |-> 0])],
                            st, nd, i + 1)
         ELSE Out([t EXCEPT !.pc = "dial", !.idx = i, !.target = nd,
                            !.dials = Append(@, [peer |-> i, node |-> nd])],
                  st, FALSE)

\* connectToBootstrapNodes: returns at once when the handle is null.
connectToBootstrapNodes(t, st, nd) ==
    IF nd = 0 THEN waitForPeers(t, st, nd) ELSE BootstrapLoop(t, st, nd, 1)

\* Mutant: no break after a successful dial, the loop goes on to the next candidate.
DialSucceededNoBreak(t, st, nd) ==
    BootstrapLoop([t EXCEPT !.connected = TRUE, !.used = t.idx], st, nd, t.idx + 1)

\* A dial resolved: connected = true; break; then the code after the loop.
DialSucceeded(t, st, nd) ==
    waitForPeers([t EXCEPT !.connected = TRUE, !.used = t.idx], st, nd)

\* Mutant: the error of a failed dial is not pushed.
DialFailedNoPush(t, st, nd) == BootstrapLoop(t, st, nd, t.idx + 1)

\* Mutant: every failed dial is reported through handleError.
DialFailedLoud(t, st, nd) ==
    LET h == handleError(st, RawError, "CONNECTION_FAILED")
    IN  BootstrapLoop([t EXCEPT !.errors = Append(@, t.idx), !.emitted = @ \o h.ev],
                      h.status, nd, t.idx + 1)

\* A dial rejected: the error is pushed and the loop goes on.
DialFailed(t, st, nd) ==
    BootstrapLoop([t EXCEPT !.errors = Append(@, t.idx)], st, nd, t.idx + 1)

\* Writes back a continuation's result; startPeerMonitoring stores a new
\* interval timer in peerCheckInterval without clearing the one stored there.
startPeerMonitoring(i, tm) ==
    IF tm
    THEN /\ timers' = timers \cup {i}
         /\ peerCheckInterval' = i
    ELSE UNCHANGED <<timers, peerCheckInterval>>

Apply(i, o) ==
    /\ tasks' = [old EXCEPT ![i] = o.t]
    /\ status' = o.status
    /\ startPeerMonitoring(i, o.tm)

\* connect(): the guard, setStatus('connecting'), createLightNode() awaited.
WakuConnectCall(cap) ==
    /\ svc = "waku"
    /\ IF WakuConnectGuard(status)
       THEN /\ noop' = "connect"
            /\ tasks' = old
            /\ UNCHANGED status
       ELSE LET s == setStatus(status, "connecting")
            IN  /\ Len(tasks) < cap
                /\ noop' = "none"
                /\ status' = s.status
                /\ tasks' = Append(old,
                       [NewTask("connect", "create", status) EXCEPT !.emitted = s.ev])
    /\ UNCHANGED <<codexRes, fixed, wakuRes>>

\* createLightNode settles: this.node = the new node, node.start() awaited.
WakuCreateDone(i, ok) ==
    /\ svc = "waku" /\ i \in TasksOf("connect") /\ Pending(i) /\ tasks[i].pc = "create"
    /\ IF ok
       THEN /\ node' = i
            /\ nodes' = nodes @@ (i :> "created")
            /\ conns' = conns @@ (i :> 0)
            /\ tasks' = [old EXCEPT ![i].pc = "start", ![i].target = i]
            /\ UNCHANGED <<status, timers, peerCheckInterval>>
       ELSE /\ Apply(i, WakuThrow(tasks[i], status, RawError))
            /\ UNCHANGED <<node, nodes, conns>>
    /\ noop' = "none"
    /\ UNCHANGED <<codexRes, fixed, subscriptions, subs>>

\* node.start() settles: connectToBootstrapNodes begins.
WakuStartDone(i, ok) ==
    /\ svc = "waku" /\ i \in TasksOf("connect") /\ Pending(i) /\ tasks[i].pc = "start"
    /\ IF ok
       THEN /\ nodes' = [nodes EXCEPT ![tasks[i].target] =
                            IF @ = "created" THEN "started" ELSE @]
            /\ Apply(i, connectToBootstrapNodes(tasks[i], status, node))
       ELSE /\ Apply(i, WakuThrow(tasks[i], status, RawError))
            /\ UNCHANGED nodes
    /\ noop' = "none"
    /\ UNCHANGED <<codexRes, fixed, node, conns, subscriptions, subs>>

\* node.dial(peer) settles (connect or reconnection cycle).  A dial can only
\* succeed on a node that is started.
WakuDialDone(i, ok) ==
    /\ svc = "waku" /\ Pending(i) /\ tasks[i].pc = "dial"
    /\ IF ok
       THEN /\ nodes[tasks[i].target] = "started"
            /\ conns' = [conns EXCEPT ![tasks[i].target] = IF @ < bootLen THEN @ + 1 ELSE @]
            /\ Apply(i, DialSucceeded(tasks[i], status, node))
       ELSE /\ Apply(i, DialFailed(tasks[i], status, node))
            /\ UNCHANGED conns
    /\ noop' = "none"
    /\ UNCHANGED <<codexRes, fixed, node, nodes, subscriptions, subs>>

\* waitForRemotePeer settles: a capable peer was found (needs a started node
\* with a connection) or the PEER_DISCOVERY_TIMEOUT ran out.
WakuWaitDone(i, ok) ==
    /\ svc = "waku" /\ Pending(i) /\ tasks[i].pc = "wait"
    /\ IF ok
       THEN /\ nodes[tasks[i].target] = "started"
            /\ conns[tasks[i].target] > 0
            /\ Apply(i, WakuFinish(tasks[i], status))
       ELSE Apply(i, WakuThrow(tasks[i], status, Err(TRUE, "PEER_DISCOVERY_FAILED")))
    /\ noop' = "none"
    /\ UNCHANGED <<codexRes, fixed, node, nodes, conns, subscriptions, subs>>

\* The subscriptions the registry holds (the values of the Map).
Registered == {subscriptions[tp] : tp \in Topics} \ {0}

\* disconnect(): the guard; every registered unsubscribe is called (each starts
\* its unsubscribeAll) and the registry cleared; the stored timer is cleared;
\* node.stop() is awaited when the handle is set, else the call ends at once.
WakuDisconnectCall(cap) ==
    /\ svc = "waku"
    /\ IF WakuDisconnectGuard(status)
       THEN /\ noop' = "disconnect"
            /\ tasks' = old
            /\ UNCHANGED <<status, wakuRes>>
       ELSE /\ Len(tasks) < cap
            /\ noop' = "none"
            /\ subs' = [s \in DOMAIN subs |->
                           IF s \in Registered
                           THEN [subs[s] EXCEPT !.invoked = @ + 1, !.inflight = @ + 1]
                           ELSE subs[s]]
            /\ subscriptions' = [tp \in Topics |-> 0]
            /\ timers' = timers \ {peerCheckInterval}
            /\ peerCheckInterval' = 0
            /\ IF node # 0
               THEN /\ tasks' = Append(old,
                          [NewTask("disconnect", "stop", status) EXCEPT !.target = node])
                    /\ UNCHANGED status
               ELSE LET s == setStatus(status, "disconnected")
                    IN  /\ status' = s.status
                        /\ tasks' = Append(old,
                              [NewTask("disconnect", "done", status) EXCEPT
                                   !.result = "resolved",
                                   !.emitted = s.ev \o <<DisconnectEvent>>])
            /\ UNCHANGED <<node, nodes, conns>>
    /\ UNCHANGED <<codexRes, fixed>>

\* node.stop() settles: this.node = null, setStatus('disconnected'),
\* emit('disconnect'); or the catch: handleError(DISCONNECT_FAILED), rethrow.
WakuStopDone(i, ok) ==
    /\ svc = "waku" /\ i \in TasksOf("disconnect") /\ Pending(i) /\ tasks[i].pc = "stop"
    /\ IF ok
       THEN LET s == setStatus(status, "disconnected")
            IN  /\ nodes' = [nodes EXCEPT ![tasks[i].target] = "stopped"]
                /\ conns' = [conns EXCEPT ![tasks[i].target] = 0]
                /\ node' = 0
                /\ status' = s.status
                /\ tasks' = [old EXCEPT ![i].pc = "done", ![i].result = "resolved",
                                          ![i].emitted = @ \o s.ev \o <<DisconnectEvent>>]
       ELSE LET h == handleError(status, RawError, "DISCONNECT_FAILED")
            IN  /\ status' = h.status
                /\ tasks' = [old EXCEPT ![i].pc = "done", ![i].result = "rejected",
                                          ![i].thrown = "raw",
                                          ![i].emitted = @ \o h.ev]
                /\ UNCHANGED <<node, nodes, conns>>
    /\ noop' = "none"
    /\ UNCHANGED <<codexRes, fixed, peerCheckInterval, timers, subscriptions, subs>>

\* get peers(): 0 on a null handle, else the number of connections.
peers == IF node = 0 THEN 0 ELSE conns[node]

\* getPeers(): the empty list on a null handle, else one entry per connection of
\* the node, whatever the status.
getPeers == IF node = 0 THEN << >> ELSE [k \in 1..conns[node] |-> k]

\* One firing of a running interval timer: on zero peers while 'connected',
\* handleError(PEERS_LOST) and attemptReconnection(), which runs up to its
\* first await.
WakuTick(tm, cap) ==
    /\ svc = "waku" /\ tm \in timers
    /\ node # 0
    /\ peers = 0 /\ status = "connected"
    /\ Len(tasks) < cap
    /\ LET h == handleError(status, RawError, "PEERS_LOST")
           t == [NewTask("reconnect", "dial", status) EXCEPT !.emitted = h.ev]
           o == connectToBootstrapNodes(t, h.status, node)
       IN  /\ tasks' = Append(old, o.t)
           /\ status' = o.status
    /\ noop' = "none"
    /\ UNCHANGED <<codexRes, fixed, wakuRes>>

\* The network drops one connection of a started node.
PeerLoss(n) ==
    /\ svc = "waku" /\ n \in DOMAIN nodes /\ nodes[n] = "started" /\ conns[n] > 0
    /\ conns' = [conns EXCEPT ![n] = @ - 1]
    /\ tasks' = old
    /\ noop' = "none"
    /\ UNCHANGED <<codexRes, fixed, status, node, nodes, peerCheckInterval, timers,
                   subscriptions, subs>>

\* Mutant: isConnected() looks at the handle only.
isConnectedHandleOnly == node # 0

\* isConnected(): status 'connected' and a non-null handle.
isConnected == status = "connected" /\ node # 0

\* subscribe(topic, ...): NOT_CONNECTED is thrown unless isConnected(); else
\* node.filter.subscribe is awaited.
WakuSubscribeCall(tp, cap, maxSubs) ==
    /\ svc = "waku" /\ tp \in Topics
    /\ Len(tasks) < cap
    /\ Cardinality(TasksOf("subscribe")) < maxSubs
    /\ IF isConnected
       THEN tasks' = Append(old,
                [NewTask("subscribe", "sub", status) EXCEPT !.idx = tp, !.target = node])
       ELSE tasks' = Append(old,
                [NewTask("subscribe", "done", status) EXCEPT
                     !.idx = tp, !.result = "rejected", !.thrown = "NOT_CONNECTED"])
    /\ noop' = "none"
    /\ UNCHANGED <<codexRes, fixed, status, wakuRes>>

\* filter.subscribe settles: the subscription is stored under its topic (Map.set
\* replaces an entry of the same key); or SUBSCRIBE_FAILED is thrown.
WakuSubscribeDone(i, ok) ==
    /\ svc = "waku" /\ i \in TasksOf("subscribe") /\ Pending(i)
    /\ IF ok
       THEN /\ nodes[tasks[i].target] = "started"
            /\ subs' = subs @@ (i :> [topic |-> tasks[i].idx, state |-> "active",
                                      node |-> tasks[i].target,
                                      invoked |-> 0, inflight |-> 0, user |-> FALSE])
            /\ subscriptions' = [subscriptions EXCEPT ![tasks[i].idx] = i]
            /\ tasks' = [old EXCEPT ![i].pc = "done", ![i].result = "resolved"]
       ELSE /\ tasks' = [old EXCEPT ![i].pc = "done", ![i].result = "rejected",
                                      ![i].thrown = "SUBSCRIBE_FAILED"]
            /\ UNCHANGED <<subs, subscriptions>>
    /\ noop' = "none"
    /\ UNCHANGED <<codexRes, fixed, status, node, nodes, conns, peerCheckInterval, timers>>

\* The caller calls the function subscribe returned (once per subscription):
\* unsubscribeAll() is awaited.
WakuUnsubscribeCall(s) ==
    /\ svc = "waku" /\ s \in DOMAIN subs /\ ~subs[s].user
    /\ subs' = [subs EXCEPT ![s].user = TRUE, ![s].invoked = @ + 1, ![s].inflight = @ + 1]
    /\ tasks' = old
    /\ noop' = "none"
    /\ UNCHANGED <<codexRes, fixed, status, node, nodes, conns, peerCheckInterval, timers,
                   subscriptions>>

\* unsubscribeAll() settles: on success the topic's registry entry is deleted.
WakuUnsubscribeDone(s, ok) ==
    /\ svc = "waku" /\ s \in DOMAIN subs /\ subs[s].inflight > 0
    /\ IF ok
       THEN /\ subs' = [subs EXCEPT ![s].inflight = @ - 1, ![s].state = "cancelled"]
            /\ subscriptions' = [subscriptions EXCEPT ![subs[s].topic] = 0]
       ELSE /\ subs' = [subs EXCEPT ![s].inflight = @ - 1]
            /\ UNCHANGED subscriptions
    /\ tasks' = old
    /\ noop' = "none"
    /\ UNCHANGED <<codexRes, fixed, status, node, nodes, conns, peerCheckInterval, timers>>

\* What the transport can hand to a subscription callback: a message without
\* payload, one whose payload protocol.decode throws on, one that decodes to a
\* value protocol.validate rejects, one that decodes to a valid value.
Kinds == {"nopayload", "undecodable", "invalid", "valid"}

\* Mutant: the decoded value goes to the handler without protocol.validate.
messageHandlerNoValidate(k) ==
    IF k = "nopayload" THEN "returned"
    ELSE IF k = "undecodable" THEN "caught"
    ELSE "handled"

\* messageHandler (the callback given to filter.subscribe): what it does with a
\* message of kind k.  It holds no reference to the status or the registry.
messageHandler(k) ==
    IF k = "nopayload" THEN "returned"
    ELSE IF k = "undecodable" THEN "caught"
    ELSE IF k = "valid" THEN "handled"
    ELSE "dropped"

\* Mutant: the hook puts a new message in front of the list.
handlerPrepend(prev, message) == <<message>> \o prev

\* The application handler of useWakuMessages: setMessages(prev => [...prev, message]).
handler(prev, message) == Append(prev, message)

\* The transport calls the callback of subscription s with a message of kind k.
\* It can do so as long as the node runs and the subscription exists on the
\* transport's side, i.e. until an unsubscribeAll() has resolved.
WakuDeliver(s, k) ==
    /\ svc = "waku" /\ s \in DOMAIN subs /\ subs[s].state = "active"
    /\ nodes[subs[s].node] = "started"
    /\ Len(delivered) < MaxMsgs
    /\ LET r == messageHandler(k)
           id == Len(delivered) + 1
       IN  /\ delivered' = Append(delivered,
                  [sub |-> s, kind |-> k, outcome |-> r])
           /\ messages' = IF r = "handled"
                           THEN handler(messages, [sub |-> s, id |-> id])
                           ELSE messages
    /\ tasks' = old
    /\ noop' = "none"
    /\ UNCHANGED <<codexRes, svc, bootLen, transfers, status, wakuRes, util>>

\* publish(topic, protocol, message): NOT_CONNECTED is thrown unless
\* isConnected(), INVALID_MESSAGE when protocol.validate(message) is false;
\* else lightPush.send is awaited.
WakuPublishCall(valid, cap) ==
    /\ svc = "waku"
    /\ Len(tasks) < cap
    /\ Cardinality(TasksOf("publish")) < MaxPublishes
    /\ tasks' = Append(old,
           IF ~isConnected
           THEN [NewTask("publish", "done", status) EXCEPT
                     !.result = "rejected", !.thrown = "NOT_CONNECTED"]
           ELSE IF ~valid
           THEN [NewTask("publish", "done", status) EXCEPT
                     !.result = "rejected", !.thrown = "INVALID_MESSAGE"]
           ELSE [NewTask("publish", "send", status) EXCEPT !.target = node])
    /\ noop' = "none"
    /\ UNCHANGED <<codexRes, fixed, status, wakuRes>>

\* lightPush.send settles: publish resolves, or PUBLISH_FAILED is thrown.
WakuPublishDone(i, ok) ==
    /\ svc = "waku" /\ i \in TasksOf("publish") /\ Pending(i)
    /\ tasks' = [old EXCEPT ![i].pc = "done",
                             ![i].result = IF ok THEN "resolved" ELSE "rejected",
                             ![i].thrown = IF ok THEN "none" ELSE "PUBLISH_FAILED"]
    /\ noop' = "none"
    /\ UNCHANGED <<codexRes, fixed, status, wakuRes>>

\* The calls a user of the instance makes.
WakuCalls(cap) ==
    \/ WakuConnectCall(cap)
    \/ WakuDisconnectCall(cap)
    \/ \E tp \in Topics : WakuSubscribeCall(tp, cap, MaxSubscribes)
    \/ \E s \in DOMAIN subs : WakuUnsubscribeCall(s)

\* What the event loop runs: continuations of settled transport promises, timer
\* firings; and what the network does.
WakuSteps(cap) ==
    \/ \E i \in DOMAIN tasks, ok \in BOOLEAN : WakuCreateDone(i, ok)
    \/ \E i \in DOMAIN tasks, ok \in BOOLEAN : WakuStartDone(i, ok)
    \/ \E i \in DOMAIN tasks, ok \in BOOLEAN : WakuDialDone(i, ok)
    \/ \E i \in DOMAIN tasks, ok \in BOOLEAN : WakuWaitDone(i, ok)
    \/ \E i \in DOMAIN tasks, ok \in BOOLEAN : WakuStopDone(i, ok)
    \/ \E tm \in timers : WakuTick(tm, cap)
    \/ \E n \in DOMAIN nodes : PeerLoss(n)
    \/ \E i \in DOMAIN tasks, ok \in BOOLEAN : WakuSubscribeDone(i, ok)
    \/ \E s \in DOMAIN subs, ok \in BOOLEAN : WakuUnsubscribeDone(s, ok)

WakuNext(cap) == WakuCalls(cap) \/ WakuSteps(cap)


\* ============================================================ CodexService
STATUS_CACHE_DURATION == 30000

\* The clock advances by one of these (ms): just inside the freshness window,
\* exactly the window, just beyond it.
TimeSteps == {STATUS_CACHE_DURATION - 1000, STATUS_CACHE_DURATION, STATUS_CACHE_DURATION + 1000}

codexSetStatus(cur, s) ==
    [status |-> s, ev |-> IF cur # s THEN <<StatusChange(s)>> ELSE <<>>]

codexHandleError(cur, error, code) ==
    LET typedError == IF error.typed THEN error ELSE Err(TRUE, code)
        st == codexSetStatus(cur, "error")
    IN  [status |-> st.status, ev |-> st.ev \o <<ErrorEvent(typedError)>>]

CodexConnectGuard(s) == s \in {"connected", "connecting"}
CodexDisconnectGuard(s) == s \in {"disconnected", "idle"}

\* checkHealth(false) answers from the cache when a check was made less than
\* STATUS_CACHE_DURATION ago.
CacheFresh == lastStatusCheck # -1 /\ now - lastStatusCheck < STATUS_CACHE_DURATION

\* Mutant: a cache entry never expires.
useCacheNoExpiry(forceCheck) == ~forceCheck /\ lastStatusCheck # -1

\* checkHealth(forceCheck) returns lastNodeActive without a probe.
useCache(forceCheck) == ~forceCheck /\ CacheFresh

\* Mutant: only a successful probe is stored.
storeProbeSuccessOnly(isActive) ==
    IF isActive THEN [lastNodeActive |-> TRUE, lastStatusCheck |-> now]
    ELSE [lastNodeActive |-> lastNodeActive, lastStatusCheck |-> lastStatusCheck]

\* What checkHealth stores when its probe settles: the GET answered 200, or
\* (catch) it failed or was aborted by the 5 s timer.
storeProbe(isActive) == [lastNodeActive |-> isActive, lastStatusCheck |-> now]

\* Mutant: connect forces the health check.
forceCheckForced == TRUE

\* The forceCheck a call of checkHealth() without argument gets (as connect
\* makes it): the parameter's default.
forceCheckDefault == FALSE

\* The catch of connect: handleError(CONNECTION_FAILED), rethrow.
CodexThrow(t, st, error) ==
    LET h == codexHandleError(st, error, "CONNECTION_FAILED")
    IN  Out([t EXCEPT !.pc = "done", !.result = "rejected", !.thrown = error.code,
                      !.emitted = @ \o h.ev],
            h.status, FALSE)

\* connect(): the guard, setStatus('connecting'), checkHealth() awaited: a fresh
\* cache entry is returned (connected holds the value read), else the probe
\* GET /v1/debug/info is sent (idx = 1).
CodexConnectCall(cap) ==
    /\ svc = "codex"
    /\ IF CodexConnectGuard(status)
       THEN /\ noop' = "connect"
            /\ tasks' = old
            /\ UNCHANGED status
       ELSE LET s == codexSetStatus(status, "connecting")
            IN  /\ Len(tasks) < cap
                /\ noop' = "none"
                /\ status' = s.status
                /\ tasks' = Append(old,
                       [NewTask("connect", "health", status) EXCEPT
                            !.emitted = s.ev,
                            !.idx = IF useCache(forceCheckDefault) THEN 0 ELSE 1,
                            !.connected = useCache(forceCheckDefault) /\ lastNodeActive])
    /\ UNCHANGED <<fixed, wakuRes, codexRes>>

\* checkHealth settles: a probe stores {active, now} ({false, now} when the GET
\* fails); an unhealthy node throws NODE_UNHEALTHY, else getNodeInfo's GET is
\* awaited.
CodexHealthDone(i, active) ==
    /\ svc = "codex" /\ i \in TasksOf("connect") /\ Pending(i) /\ tasks[i].pc = "health"
    /\ LET probed == tasks[i].idx = 1
           isHealthy == IF probed THEN active ELSE tasks[i].connected
       IN  /\ probed \/ active
           /\ IF probed
              THEN /\ lastNodeActive' = storeProbe(active).lastNodeActive
                   /\ lastStatusCheck' = storeProbe(active).lastStatusCheck
              ELSE UNCHANGED <<lastNodeActive, lastStatusCheck>>
           /\ IF isHealthy
              THEN /\ tasks' = [old EXCEPT ![i].pc = "info", ![i].connected = TRUE]
                   /\ UNCHANGED status
              ELSE LET o == CodexThrow(tasks[i], status, Err(TRUE, "NODE_UNHEALTHY"))
                   IN  /\ tasks' = [old EXCEPT ![i] = o.t]
                       /\ status' = o.status
    /\ noop' = "none"
    /\ UNCHANGED <<fixed, wakuRes, nodeInfo, now>>

\* getNodeInfo settles: _nodeInfo is stored, setStatus('connected'),
\* emit('connect'); an axios error is thrown as NODE_INFO_FAILED, any other
\* error as it is.
CodexInfoDone(i, out) ==
    /\ svc = "codex" /\ i \in TasksOf("connect") /\ Pending(i) /\ tasks[i].pc = "info"
    /\ IF out = "ok"
       THEN LET s == codexSetStatus(status, "connected")
            IN  /\ nodeInfo' = 1
                /\ status' = s.status
                /\ tasks' = [old EXCEPT ![i].pc = "done", ![i].result = "resolved",
                                        ![i].emitted = @ \o s.ev \o <<ConnectEvent>>]
       ELSE LET o == CodexThrow(tasks[i], status,
                         IF out = "axios" THEN Err(TRUE, "NODE_INFO_FAILED") ELSE RawError)
            IN  /\ tasks' = [old EXCEPT ![i] = o.t]
                /\ status' = o.status
                /\ UNCHANGED nodeInfo
    /\ noop' = "none"
    /\ UNCHANGED <<fixed, wakuRes, lastStatusCheck, lastNodeActive, now>>

\* checkHealth(forceCheck) called by the user of the service: the cached value
\* is returned (idx = 0, connected holds the value), else the probe GET
\* /v1/debug/info is sent (idx = 1).
CodexCheckHealthCall(forceCheck, cap) ==
    /\ svc = "codex"
    /\ Len(tasks) < cap
    /\ tasks' = Append(old,
           IF useCache(forceCheck)
           THEN [NewTask("health", "done", status) EXCEPT
                     !.force = forceCheck, !.result = "resolved",
                     !.connected = lastNodeActive]
           ELSE [NewTask("health", "probe", status) EXCEPT
                     !.force = forceCheck, !.idx = 1])
    /\ noop' = "none"
    /\ UNCHANGED <<fixed, status, wakuRes, codexRes>>

\* The probe of a checkHealth call settles: the result is stored and returned;
\* a failed probe returns false, nothing is thrown.
CodexCheckHealthDone(i, isActive) ==
    /\ svc = "codex" /\ i \in TasksOf("health") /\ Pending(i) /\ tasks[i].pc = "probe"
    /\ lastNodeActive' = storeProbe(isActive).lastNodeActive
    /\ lastStatusCheck' = storeProbe(isActive).lastStatusCheck
    /\ tasks' = [old EXCEPT ![i].pc = "done", ![i].result = "resolved",
                            ![i].connected = isActive]
    /\ noop' = "none"
    /\ UNCHANGED <<fixed, status, wakuRes, nodeInfo, now>>

\* disconnect(): the guard, setStatus('disconnected'), emit('disconnect'); the
\* body has no await.
CodexDisconnectCall(cap) ==
    /\ svc = "codex"
    /\ IF CodexDisconnectGuard(status)
       THEN /\ noop' = "disconnect"
            /\ tasks' = old
            /\ UNCHANGED status
       ELSE LET s == codexSetStatus(status, "disconnected")
            IN  /\ Len(tasks) < cap
                /\ noop' = "none"
                /\ status' = s.status
                /\ tasks' = Append(old,
                       [NewTask("disconnect", "done", status) EXCEPT
                            !.result = "resolved",
                            !.emitted = s.ev \o <<DisconnectEvent>>])
    /\ UNCHANGED <<fixed, wakuRes, codexRes>>

\* Time passes.
Advance(d) ==
    /\ svc = "codex" /\ now + d <= MaxTime
    /\ now' = now + d
    /\ tasks' = old
    /\ noop' = "none"
    /\ UNCHANGED <<fixed, status, wakuRes, lastStatusCheck, lastNodeActive, nodeInfo>>

\* Mutant: isConnected() accepts a service that is still connecting.
codexIsConnectedLoose == status \in {"connected", "connecting"}

\* CodexService.isConnected().
codexIsConnected == status = "connected"

\* The progress events of a transport: bytes loaded so far, of a total that
\* the event may or may not report (lengthComputable / progressEvent.total).
Loadeds == {500, 1000}
Totals == {1000}

\* The value handed to onProgress: (loaded / total) * 100.
percentComplete(loaded, total) == (loaded * 100) \div total

\* Mutant: the registry update replaces every entry.
mapSetAll(m, id, v) == [k \in DOMAIN m |-> v]

\* next.set(id, v) on the copy of the hook's Map.
mapSet(m, id, v) == [m EXCEPT ![id] = v]

\* The updates the transfer hooks make to the entry of a transfer. A call made
\* of the service directly (signal) has no entry: only its result is kept.
\* listed says whether the hook's Map holds an entry under the id: onProgress
\* updates an entry only if it finds one, the terminal updates set the entry
\* whether or not the Map holds one.
onProgress(state, progress) ==
    IF state.listed THEN [state EXCEPT !.progress = progress] ELSE state
completed(state) ==
    IF state.signal
    THEN [state EXCEPT !.pc = "done", !.settled = @ + 1]
    ELSE [state EXCEPT !.progress = 100, !.status = "completed", !.pc = "done",
                       !.cid = IF state.kind = "upload" THEN 1 ELSE 0,
                       !.settled = @ + 1, !.listed = TRUE]
failed(state, code) ==
    IF state.signal
    THEN [state EXCEPT !.pc = "done", !.thrown = code, !.settled = @ + 1]
    ELSE [state EXCEPT !.progress = 0, !.status = "failed", !.pc = "done",
                       !.thrown = code, !.cid = 0, !.settled = @ + 1, !.listed = TRUE]

\* upload(file) of useFileUpload / download(cid) of useFileDownload: a new id, an
\* entry with progress 0, then codex.upload / codex.download with onProgress and
\* no signal; or (signal) codex.upload / codex.download called directly with an
\* AbortSignal and no onProgress. The service throws NOT_CONNECTED unless
\* isConnected() (the hook's catch marks the entry failed), else sends the
\* request.
CodexTransferCall(kind, signal, cap) ==
    /\ svc = "codex" /\ kind \in {"upload", "download"}
    /\ Len(transfers) < cap
    /\ LET entry == [kind |-> kind, pc |-> "request", progress |-> 0,
                     status |-> IF signal THEN "untracked"
                                ELSE IF kind = "upload" THEN "uploading" ELSE "downloading",
                     thrown |-> "none", cid |-> 0, signal |-> signal,
                     aborted |-> "no", settled |-> 0, loaded |-> 0, total |-> 0,
                     listed |-> ~signal, removed |-> FALSE]
       IN  transfers' = Append(transfers,
               IF codexIsConnected THEN entry ELSE failed(entry, "NOT_CONNECTED"))
    /\ tasks' = old
    /\ noop' = "none"
    /\ UNCHANGED <<svc, bootLen, delivered, messages, status, wakuRes, codexRes, util>>

\* The transport reports progress of a request in flight (a request's loaded
\* count does not go down): when the total is computable the service hands
\* percentComplete to onProgress and the hook stores it in the entry, if there
\* is one; when it is not, no callback is made.
CodexTransferProgress(t, loaded, total, lengthComputable) ==
    /\ svc = "codex" /\ t \in DOMAIN transfers /\ transfers[t].pc = "request"
    /\ ~transfers[t].signal
    /\ loaded \in Loadeds /\ total \in Totals /\ loaded >= transfers[t].loaded
    /\ transfers' =
           IF lengthComputable
           THEN mapSet(transfers, t,
                    [onProgress(transfers[t], percentComplete(loaded, total))
                        EXCEPT !.loaded = loaded, !.total = total])
           ELSE transfers
    /\ tasks' = old
    /\ noop' = "none"
    /\ UNCHANGED <<svc, bootLen, delivered, messages, status, wakuRes, codexRes, util>>

\* A progress callback of a request that has settled (a transport that
\* delivers a throttled progress event late): the hook's onProgress stores the
\* value in the entry, which exists.
CodexTransferLateProgress(t, loaded, total) ==
    /\ svc = "codex" /\ t \in DOMAIN transfers /\ transfers[t].pc = "done"
    /\ ~transfers[t].signal /\ transfers[t].thrown # "NOT_CONNECTED"
    /\ loaded \in Loadeds /\ total \in Totals
    /\ transfers' = mapSet(transfers, t,
           onProgress(transfers[t], percentComplete(loaded, total)))
    /\ tasks' = old
    /\ noop' = "none"
    /\ UNCHANGED <<svc, bootLen, delivered, messages, status, wakuRes, codexRes, util>>

\* The request settles: the hook stores the completed entry, or its catch the
\* failed one (UPLOAD_FAILED, NETWORK_ERROR, ... / DOWNLOAD_FAILED).
CodexTransferDone(t, ok) ==
    /\ svc = "codex" /\ t \in DOMAIN transfers /\ transfers[t].pc = "request"
    /\ transfers' = mapSet(transfers, t,
           [(IF ok THEN completed(transfers[t])
             ELSE failed(transfers[t],
                         IF transfers[t].kind = "upload" THEN "UPLOAD_FAILED"
                         ELSE "DOWNLOAD_FAILED"))
               EXCEPT !.loaded = 0, !.total = 0])
    /\ tasks' = old
    /\ noop' = "none"
    /\ UNCHANGED <<svc, bootLen, delivered, messages, status, wakuRes, codexRes, util>>

\* The caller aborts the AbortSignal it passed. In flight: an upload's
\* xhr.abort() fires onabort, which rejects with UPLOAD_ABORTED; a download's
\* axios request rejects with a CanceledError, an axios error, which the catch
\* of download throws as DOWNLOAD_FAILED. After the request has settled the
\* abort has no effect.
CodexTransferAbort(t) ==
    /\ svc = "codex" /\ t \in DOMAIN transfers /\ transfers[t].signal
    /\ transfers[t].aborted = "no" /\ transfers[t].thrown # "NOT_CONNECTED"
    /\ transfers' = mapSet(transfers, t,
           IF transfers[t].pc = "request"
           THEN [failed(transfers[t],
                        IF transfers[t].kind = "upload" THEN "UPLOAD_ABORTED"
                        ELSE "DOWNLOAD_FAILED")
                    EXCEPT !.aborted = "inflight"]
           ELSE transfers[t])
    /\ tasks' = old
    /\ noop' = "none"
    /\ UNCHANGED <<svc, bootLen, delivered, messages, status, wakuRes, codexRes, util>>

\* next.delete(id) on the copy of the hook's Map (removed records that the
\* entry was taken out).
mapDelete(m, id) == [m EXCEPT ![id].listed = FALSE, ![id].removed = TRUE]

\* removeUpload(id) / removeDownload(id): the entry is deleted from the hook's
\* Map; the request, if one is in flight, goes on.
CodexTransferRemove(t) ==
    /\ svc = "codex" /\ t \in DOMAIN transfers /\ transfers[t].listed
    /\ transfers' = mapDelete(transfers, t)
    /\ tasks' = old
    /\ noop' = "none"
    /\ UNCHANGED <<svc, bootLen, delivered, messages, status, wakuRes, codexRes, util>>

\* clearUploads() / clearDownloads(): the hook's Map is replaced by an empty one.
CodexTransferClear(kind) ==
    /\ svc = "codex" /\ kind \in {"upload", "download"}
    /\ \E t \in DOMAIN transfers : transfers[t].kind = kind /\ transfers[t].listed
    /\ transfers' = [t \in DOMAIN transfers |->
                         IF transfers[t].kind = kind /\ transfers[t].listed
                         THEN mapDelete(transfers, t)[t]
                         ELSE transfers[t]]
    /\ tasks' = old
    /\ noop' = "none"
    /\ UNCHANGED <<svc, bootLen, delivered, messages, status, wakuRes, codexRes, util>>

CodexCalls(cap) ==
    \/ CodexConnectCall(cap)
    \/ CodexDisconnectCall(cap)
    \/ \E forceCheck \in BOOLEAN : CodexCheckHealthCall(forceCheck, cap)

CodexSteps ==
    \/ \E i \in DOMAIN tasks, active \in BOOLEAN : CodexHealthDone(i, active)
    \/ \E i \in DOMAIN tasks, isActive \in BOOLEAN : CodexCheckHealthDone(i, isActive)
    \/ \E i \in DOMAIN tasks, out \in {"ok", "axios", "raw"} : CodexInfoDone(i, out)
    \/ \E d \in TimeSteps : Advance(d)

CodexNext(cap) == CodexCalls(cap) \/ CodexSteps

\* ======================================================= TypedEventEmitter
\* The event names (two of ServiceEvents) and the handler functions. An element
\* of a Set of handlers is a function given to on (wrapper = 0) or the wrapper
\* that once made around one (wrapper = its number); reg numbers the on / once
\* call that added it.
Events == {"statusChange", "error"}
Handlers == 1..NumHandlers
key(x) == <<x.fn, x.wrapper>>

\* Mutant: add puts the element first.
setAddFront(set, x) ==
    IF \E i \in DOMAIN set : key(set[i]) = key(x) THEN set ELSE <<x>> \o set

\* Mutant: add does not look for the element.
setAddDup(set, x) == Append(set, x)

\* Set.prototype.add: an element that is in the set stays where it is.
setAdd(set, x) ==
    IF \E i \in DOMAIN set : key(set[i]) = key(x) THEN set ELSE Append(set, x)

\* Set.prototype.delete.
setDelete(set, k) ==
    LET keep(y) == key(y) # k IN SelectSeq(set, keep)

\* Mutant: the catch of emit throws the error on.
catchRethrow(acc) == [acc EXCEPT !.propagated = TRUE]

\* The catch of emit: console.error.
catchError(acc) == [acc EXCEPT !.errors = @ + 1]

\* handlers.get(event)?.forEach(...) from position i on: the handler is called
\* inside try; a wrapper of once calls its handler and then off(event,
\* wrapper), which a throw of the handler skips. outcome tells, for this
\* emission, which handler functions throw.
RECURSIVE forEach(_, _, _, _)
forEach(set, i, outcome, acc) ==
    IF i > Len(set) \/ acc.propagated THEN [acc EXCEPT !.set = set]
    ELSE LET x == set[i]
             threw == outcome[x.fn] = "throw"
             after == IF x.wrapper # 0 /\ ~threw THEN setDelete(set, key(x)) ELSE set
             called == [acc EXCEPT
                           !.calls = Append(@, [fn |-> x.fn, wrapper |-> x.wrapper,
                                                reg |-> x.reg, threw |-> threw]),
                           !.onceCalls = IF x.wrapper # 0
                                         THEN [@ EXCEPT ![x.wrapper] = @ + 1] ELSE @]
         IN  forEach(after, IF Len(after) < Len(set) THEN i ELSE i + 1, outcome,
                     IF threw THEN catchError(called) ELSE called)

\* listenerCount(event)
listenerCount(event) == Len(handlers[event])

\* The record of the last call: op; calls, errors and propagated are those of
\* an emit and are empty after any other call.
Op(name, event, fn, present) ==
    [name |-> name, event |-> event, fn |-> fn, present |-> present]
Logged(log, op) ==
    [log EXCEPT !.calls = << >>, !.errors = 0, !.propagated = FALSE, !.op = op]
Registered0(event, listener) ==
    \E i \in DOMAIN handlers[event] : key(handlers[event][i]) = <<listener, 0>>

\* on(event, handler)
EmitterOn(event, listener) ==
    /\ emitLog.regs < MaxRegs
    /\ handlers' = [handlers EXCEPT ![event] =
           setAdd(@, [fn |-> listener, wrapper |-> 0, reg |-> emitLog.regs + 1])]
    /\ emitLog' = [Logged(emitLog, Op("on", event, listener, Registered0(event, listener)))
                       EXCEPT !.regs = @ + 1]
    /\ tasks' = old
    /\ noop' = "none"
    /\ UNCHANGED <<svc, bootLen, delivered, messages, transfers, parsed, hook, insts,
                   status, wakuRes, codexRes>>

\* off(event, handler)
EmitterOff(event, listener) ==
    /\ handlers' = [handlers EXCEPT ![event] = setDelete(@, <<listener, 0>>)]
    /\ emitLog' = Logged(emitLog, Op("off", event, listener, Registered0(event, listener)))
    /\ tasks' = old
    /\ noop' = "none"
    /\ UNCHANGED <<svc, bootLen, delivered, messages, transfers, parsed, hook, insts,
                   status, wakuRes, codexRes>>

\* once(event, handler): a new wrapper is registered with on.
EmitterOnce(event, listener) ==
    /\ emitLog.regs < MaxRegs
    /\ LET wrapper == Len(emitLog.onceCalls) + 1
       IN  /\ handlers' = [handlers EXCEPT ![event] =
                  setAdd(@, [fn |-> listener, wrapper |-> wrapper,
                             reg |-> emitLog.regs + 1])]
           /\ emitLog' = [Logged(emitLog, Op("once", event, listener, FALSE))
                              EXCEPT !.regs = @ + 1, !.onceCalls = Append(@, 0)]
    /\ tasks' = old
    /\ noop' = "none"
    /\ UNCHANGED <<svc, bootLen, delivered, messages, transfers, parsed, hook, insts,
                   status, wakuRes, codexRes>>

\* emit(event, ...args)
EmitterEmit(event, outcome) ==
    /\ emitLog.n < MaxEmits
    /\ LET r == forEach(handlers[event], 1, outcome,
                        [calls |-> << >>, errors |-> 0, propagated |-> FALSE,
                         onceCalls |-> emitLog.onceCalls, set |-> handlers[event]])
       IN  /\ handlers' = [handlers EXCEPT ![event] = r.set]
           /\ emitLog' = [emitLog EXCEPT !.n = @ + 1, !.calls = r.calls,
                              !.errors = r.errors, !.propagated = r.propagated,
                              !.onceCalls = r.onceCalls,
                              !.op = Op("emit", event, 0, FALSE)]
    /\ tasks' = old
    /\ noop' = "none"
    /\ UNCHANGED <<svc, bootLen, delivered, messages, transfers, parsed, hook, insts,
                   status, wakuRes, codexRes>>

\* removeAllListeners(event) / removeAllListeners(): event = "all".
EmitterRemoveAll(event) ==
    /\ handlers' = [e \in Events |->
                       IF event \in {e, "all"} THEN << >> ELSE handlers[e]]
    /\ emitLog' = Logged(emitLog, Op("removeAllListeners", event, 0, FALSE))
    /\ tasks' = old
    /\ noop' = "none"
    /\ UNCHANGED <<svc, bootLen, delivered, messages, transfers, parsed, hook, insts,
                   status, wakuRes, codexRes>>

\* ===================================================== parseUploadResponse
\* A response text: not JSON, the JSON null, a JSON number, or a JSON object
\* whose fields id, cid, size and data are absent, falsy ("empty": '', 0) or
\* hold a value of their own; data is absent, null or an object with id, cid
\* and size. pad: the text has whitespace around it.
FieldValues(v) == {"absent", "empty", v}
DataValues ==
    {[json |-> k, id |-> "absent", cid |-> "absent", size |-> "absent"] : k \in {"absent", "null"}}
    \cup [json : {"object"}, id : FieldValues("DI"), cid : FieldValues("DC"),
          size : FieldValues("DS")]
NoData == [json |-> "absent", id |-> "absent", cid |-> "absent", size |-> "absent"]
Responses ==
    [json : {"invalid", "null", "number"}, id : {"absent"}, cid : {"absent"},
     size : {"absent"}, data : {NoData}, pad : BOOLEAN]
    \cup [json : {"object"}, id : FieldValues("I"), cid : FieldValues("C"),
          size : FieldValues("S"), data : DataValues, pad : BOOLEAN]

\* A string of the result: the value of a field, or a text.
FieldString(v) == [value |-> v, text |-> << >>]

\* responseText.trim()
trim(responseText) == [value |-> "text", text |-> <<[responseText EXCEPT !.pad = FALSE]>>]

\* a || b on the values of the model: absent (undefined) and empty are falsy.
Truthy(v) == v \notin {"absent", "empty"}

\* Mutant: cid is looked up before id.
cidOfCidFirst(jsonResponse, responseText) ==
    IF Truthy(jsonResponse.cid) THEN FieldString(jsonResponse.cid)
    ELSE IF Truthy(jsonResponse.id) THEN FieldString(jsonResponse.id)
    ELSE IF Truthy(jsonResponse.data.id) THEN FieldString(jsonResponse.data.id)
    ELSE IF Truthy(jsonResponse.data.cid) THEN FieldString(jsonResponse.data.cid)
    ELSE trim(responseText)

\* jsonResponse.id || jsonResponse.cid || jsonResponse.data?.id ||
\* jsonResponse.data?.cid || responseText.trim()
cidOf(jsonResponse, responseText) ==
    IF Truthy(jsonResponse.id) THEN FieldString(jsonResponse.id)
    ELSE IF Truthy(jsonResponse.cid) THEN FieldString(jsonResponse.cid)
    ELSE IF Truthy(jsonResponse.data.id) THEN FieldString(jsonResponse.data.id)
    ELSE IF Truthy(jsonResponse.data.cid) THEN FieldString(jsonResponse.data.cid)
    ELSE trim(responseText)

\* The try block: JSON.parse throws on a text that is not JSON; reading .id of
\* null throws a TypeError; a number has none of the fields.
tryParse(responseText) ==
    IF responseText.json \in {"invalid", "null"}
    THEN [threw |-> TRUE, cid |-> FieldString("none"), size |-> "0"]
    ELSE [threw |-> FALSE,
          cid |-> cidOf(responseText, responseText),
          size |-> IF Truthy(responseText.size) THEN responseText.size
                   ELSE IF Truthy(responseText.data.size) THEN responseText.data.size
                   ELSE "0"]

\* parseUploadResponse(responseText): the catch falls back to the trimmed text.
parseUploadResponse(responseText) ==
    LET r == tryParse(responseText)
    IN  IF r.threw THEN [threw |-> FALSE, cid |-> trim(responseText), size |-> "0"]
        ELSE r

\* A response text is parsed.
ParseUpload(responseText) ==
    /\ responseText \in Responses
    /\ parsed' = <<[in |-> responseText, out |-> parseUploadResponse(responseText)]>>
    /\ tasks' = old
    /\ noop' = "none"
    /\ UNCHANGED <<svc, bootLen, delivered, messages, transfers, handlers, emitLog, hook, insts,
                   status, wakuRes, codexRes>>

\* ============================================ createServiceHook.useService
\* The hook makes a new service instance for every connect() call and keeps a
\* reference (serviceRef.current) to the last one whose connect() resolved. Of
\* an instance the hook uses connect(), disconnect(), on() and off(): an
\* instance is followed by its status and by whether the hook's setStatus and
\* setError are registered with it (listening).

\* A service instance emits statusChange(s) and, with 'error', an error event:
\* the hook's state follows while its listeners are registered.
Fed(h, inst, s) ==
    IF inst.listening /\ inst.status # s
    THEN [h EXCEPT !.status = s, !.error = IF s = "error" THEN TRUE ELSE @]
    ELSE h

HookCall(kind, inst, result) == [kind |-> kind, inst |-> inst, result |-> result]

\* connect(): setStatus('connecting'), setError(null), new ServiceClass, the two
\* listeners registered, newService.connect() awaited (the instance sets
\* 'connecting').
HookConnectCall ==
    /\ Len(hook.calls) < MaxHookCalls
    /\ insts' = Append(insts, [status |-> "connecting", listening |-> TRUE])
    /\ hook' = [hook EXCEPT !.status = "connecting", !.error = FALSE,
                            !.calls = Append(@, HookCall("connect", Len(insts) + 1, "pending")),
                            !.last = 0]
    /\ UNCHANGED <<svc, bootLen, status, wakuRes, codexRes, delivered, messages, transfers,
                   tasks, noop, handlers, emitLog, parsed>>

\* newService.connect() settles. Resolved: the instance is 'connected',
\* serviceRef.current and service are set to it. Rejected: the instance is in
\* 'error'; the catch sets error and status 'error' and rethrows; the
\* listeners stay registered and the instance is not stored.
HookConnectDone(c, ok) ==
    /\ c \in DOMAIN hook.calls /\ hook.calls[c].kind = "connect"
    /\ hook.calls[c].result = "pending"
    /\ LET k == hook.calls[c].inst
           s == IF ok THEN "connected" ELSE "error"
           h == Fed(hook, insts[k], s)
       IN  /\ insts' = [insts EXCEPT ![k].status = s]
           /\ hook' = IF ok
                      THEN [h EXCEPT !.ref = k, !.service = k,
                                     !.calls[c].result = "resolved", !.last = c]
                      ELSE [h EXCEPT !.error = TRUE, !.status = "error",
                                     !.calls[c].result = "rejected", !.last = c]
    /\ UNCHANGED <<svc, bootLen, status, wakuRes, codexRes, delivered, messages, transfers,
                   tasks, noop, handlers, emitLog, parsed>>

\* disconnect(): with serviceRef.current null the call does nothing and
\* resolves; else serviceRef.current.disconnect() is awaited.
HookDisconnectCall ==
    /\ Len(hook.calls) < MaxHookCalls
    /\ hook' = IF hook.ref = 0
               THEN [hook EXCEPT !.calls = Append(@, HookCall("disconnect", 0, "resolved")),
                                 !.last = Len(hook.calls) + 1]
               ELSE [hook EXCEPT !.calls = Append(@, HookCall("disconnect", hook.ref, "pending")),
                                 !.last = 0]
    /\ UNCHANGED <<svc, bootLen, status, wakuRes, codexRes, delivered, messages, transfers,
                   tasks, noop, handlers, emitLog, parsed, insts>>

\* The awaited disconnect() of the instance settles. Resolved: the instance is
\* 'disconnected'; then off() is called on what serviceRef.current refers to
\* NOW (a TypeError when it is null: the catch sets error and rethrows),
\* serviceRef.current and service are set to null and the status to
\* 'disconnected'. Rejected (the instance is in 'error'): the catch sets error
\* and rethrows.
HookDisconnectDone(c, ok) ==
    /\ c \in DOMAIN hook.calls /\ hook.calls[c].kind = "disconnect"
    /\ hook.calls[c].result = "pending"
    /\ LET k == hook.calls[c].inst
           s == IF ok THEN "disconnected" ELSE "error"
           h == Fed(hook, insts[k], s)
           cur == hook.ref
       IN  /\ ok \/ insts[k].status # "disconnected"
           /\ insts' = [j \in DOMAIN insts |->
                            [status |-> IF j = k THEN s ELSE insts[j].status,
                             listening |-> IF ok /\ j = cur THEN FALSE ELSE insts[j].listening]]
           /\ hook' = IF ok /\ cur # 0
                      THEN [h EXCEPT !.ref = 0, !.service = 0, !.status = "disconnected",
                                     !.calls[c].result = "resolved", !.last = c]
                      ELSE [h EXCEPT !.error = TRUE,
                                     !.calls[c].result = "rejected", !.last = c]
    /\ UNCHANGED <<svc, bootLen, status, wakuRes, codexRes, delivered, messages, transfers,
                   tasks, noop, handlers, emitLog, parsed>>

\* ========================================================= specifications
Next == WakuNext(MaxTasks) \/ CodexNext(MaxTasks)

Spec == Init /\ [][Next]_vars

\* The same instance with one more accepted call or reconnection cycle.
NextDeep == WakuNext(MaxTasks + 1) \/ CodexNext(MaxTasks + 1)

SpecDeep == Init /\ [][NextDeep]_vars

\* The instance under a user who awaits every call before making the next and
\* makes no call while a reconnection cycle runs: a call is accepted only when
\* nothing is in flight.
NoPending == \A i \in DOMAIN tasks : ~Pending(i)
SerialCap == IF NoPending THEN MaxTasks ELSE 0

NextSerial ==
    \/ WakuCalls(SerialCap) \/ WakuSteps(MaxTasks)
    \/ CodexCalls(SerialCap) \/ CodexSteps

SpecSerial == Init /\ [][NextSerial]_vars

\* Messaging and transfer operations next to the lifecycle of the instance:
\* calls may overlap; one bootstrap candidate; checkHealth is called by
\* connect only; the transfers are made through the hooks and every progress
\* event has a computable length.
NextOps ==
    \/ WakuConnectCall(MaxTasks)
    \/ WakuDisconnectCall(MaxTasks)
    \/ \E tp \in Topics : WakuSubscribeCall(tp, MaxTasks, MaxSubscribes)
    \/ \E valid \in BOOLEAN : WakuPublishCall(valid, MaxTasks)
    \/ \E i \in DOMAIN tasks, ok \in BOOLEAN : WakuCreateDone(i, ok)
    \/ \E i \in DOMAIN tasks, ok \in BOOLEAN : WakuStartDone(i, ok)
    \/ \E i \in DOMAIN tasks, ok \in BOOLEAN : WakuDialDone(i, ok)
    \/ \E i \in DOMAIN tasks, ok \in BOOLEAN : WakuWaitDone(i, ok)
    \/ \E i \in DOMAIN tasks, ok \in BOOLEAN : WakuStopDone(i, ok)
    \/ \E i \in DOMAIN tasks, ok \in BOOLEAN : WakuSubscribeDone(i, ok)
    \/ \E i \in DOMAIN tasks, ok \in BOOLEAN : WakuPublishDone(i, ok)
    \/ CodexConnectCall(MaxTasks)
    \/ CodexDisconnectCall(MaxTasks)
    \/ \E i \in DOMAIN tasks, active \in BOOLEAN : CodexHealthDone(i, active)
    \/ \E i \in DOMAIN tasks, out \in {"ok", "axios", "raw"} : CodexInfoDone(i, out)
    \/ \E d \in TimeSteps : Advance(d)
    \/ \E kind \in {"upload", "download"} : CodexTransferCall(kind, FALSE, MaxTransfers)
    \/ \E t \in DOMAIN transfers, loaded \in Loadeds, total \in Totals :
           CodexTransferProgress(t, loaded, total, TRUE)
    \/ \E t \in DOMAIN transfers, ok \in BOOLEAN : CodexTransferDone(t, ok)

InitOps == Init /\ bootLen <= 1

SpecOps == InitOps /\ [][NextOps]_vars

\* The transfers of a CodexService, made through the hooks or of the service
\* directly with an AbortSignal, several at a time, while the user connects
\* the service and then disconnects it.
NextTransfer ==
    \/ CodexConnectCall(IF NoPending THEN 1 ELSE 0)
    \/ CodexDisconnectCall(IF NoPending THEN 2 ELSE 0)
    \/ \E i \in DOMAIN tasks, active \in BOOLEAN : CodexHealthDone(i, active)
    \/ \E i \in DOMAIN tasks, out \in {"ok", "axios", "raw"} : CodexInfoDone(i, out)
    \/ \E kind \in {"upload", "download"}, signal \in BOOLEAN :
           CodexTransferCall(kind, signal, MaxTransfers + 1)
    \/ \E t \in DOMAIN transfers, loaded \in Loadeds, total \in Totals, lengthComputable \in BOOLEAN :
           CodexTransferProgress(t, loaded, total, lengthComputable)
    \/ \E t \in DOMAIN transfers, loaded \in Loadeds, total \in Totals :
           CodexTransferLateProgress(t, loaded, total)
    \/ \E t \in DOMAIN transfers, ok \in BOOLEAN : CodexTransferDone(t, ok)
    \/ \E t \in DOMAIN transfers : CodexTransferAbort(t)

InitTransfer == Init /\ svc = "codex"

SpecTransfer == InitTransfer /\ [][NextTransfer]_vars

\* A WakuService whose transport answers: every dial and every peer wait that
\* is awaited settles (a dial by the transport's own timeout, the wait by
\* PEER_DISCOVERY_TIMEOUT at the latest). The user awaits every call.
NextReconnect == WakuCalls(SerialCap) \/ WakuSteps(MaxTasks)

InitReconnect == Init /\ svc = "waku"

SpecReconnect ==
    /\ InitReconnect
    /\ [][NextReconnect]_vars
    /\ WF_vars(\E i \in DOMAIN tasks, ok \in BOOLEAN : WakuDialDone(i, ok))
    /\ WF_vars(\E i \in DOMAIN tasks, ok \in BOOLEAN : WakuWaitDone(i, ok))

\* A TypedEventEmitter on its own, with handlers that return or throw.
NextEmitter ==
    \/ \E event \in Events, listener \in Handlers : EmitterOn(event, listener)
    \/ \E event \in Events, listener \in Handlers : EmitterOff(event, listener)
    \/ \E event \in Events, listener \in Handlers : EmitterOnce(event, listener)
    \/ \E event \in Events, outcome \in [Handlers -> {"return", "throw"}] :
           EmitterEmit(event, outcome)
    \/ \E event \in Events \cup {"all"} : EmitterRemoveAll(event)

InitEmitter == Init /\ svc = "waku" /\ bootLen = 1

SpecEmitter == InitEmitter /\ [][NextEmitter]_vars

\* The response parser on its own.
NextParse == \E responseText \in Responses : ParseUpload(responseText)

InitParse == Init /\ svc = "codex"

SpecParse == InitParse /\ [][NextParse]_vars

\* The message path of a WakuService: the instance with the transport
\* delivering messages to its subscriptions, under a user who awaits every call;
\* the network keeps the connections it opened.
NextMsg ==
    \/ WakuCalls(SerialCap)
    \/ \E i \in DOMAIN tasks, ok \in BOOLEAN : WakuCreateDone(i, ok)
    \/ \E i \in DOMAIN tasks, ok \in BOOLEAN : WakuStartDone(i, ok)
    \/ \E i \in DOMAIN tasks, ok \in BOOLEAN : WakuDialDone(i, ok)
    \/ \E i \in DOMAIN tasks, ok \in BOOLEAN : WakuWaitDone(i, ok)
    \/ \E i \in DOMAIN tasks, ok \in BOOLEAN : WakuStopDone(i, ok)
    \/ \E i \in DOMAIN tasks, ok \in BOOLEAN : WakuSubscribeDone(i, ok)
    \/ \E s \in DOMAIN subs, ok \in BOOLEAN : WakuUnsubscribeDone(s, ok)
    \/ \E s \in DOMAIN subs, k \in Kinds : WakuDeliver(s, k)

\* The message path does not read the bootstrap list: one candidate.
InitMsg == Init /\ svc = "waku" /\ bootLen = 1

SpecMsg == InitMsg /\ [][NextMsg]_vars

\* The lists of the transfer hooks: transfers made through the hooks of a
\* CodexService that the user connects and then disconnects, with entries
\* removed one by one or all at once while requests are in flight or after.
NextRemove ==
    \/ CodexConnectCall(IF NoPending THEN 1 ELSE 0)
    \/ CodexDisconnectCall(IF NoPending THEN 2 ELSE 0)
    \/ \E i \in DOMAIN tasks, active \in BOOLEAN : CodexHealthDone(i, active)
    \/ \E i \in DOMAIN tasks, out \in {"ok", "axios", "raw"} : CodexInfoDone(i, out)
    \/ \E kind \in {"upload", "download"} : CodexTransferCall(kind, FALSE, MaxTransfers + 1)
    \/ \E t \in DOMAIN transfers, loaded \in Loadeds, total \in Totals :
           CodexTransferProgress(t, loaded, total, TRUE)
    \/ \E t \in DOMAIN transfers, ok \in BOOLEAN : CodexTransferDone(t, ok)
    \/ \E t \in DOMAIN transfers : CodexTransferRemove(t)
    \/ \E kind \in {"upload", "download"} : CodexTransferClear(kind)

InitRemove == Init /\ svc = "codex"

SpecRemove == InitRemove /\ [][NextRemove]_vars

\* The hook made by createServiceHook (useWaku), whose calls may overlap.
NextHook ==
    \/ HookConnectCall
    \/ HookDisconnectCall
    \/ \E c \in DOMAIN hook.calls, ok \in BOOLEAN : HookConnectDone(c, ok)
    \/ \E c \in DOMAIN hook.calls, ok \in BOOLEAN : HookDisconnectDone(c, ok)

InitHook == Init /\ svc = "waku" /\ bootLen = 1

SpecHook == InitHook /\ [][NextHook]_vars

\* The subscription registry of a WakuService: a user who awaits every call
\* connects, subscribes (the same topic key may be used again), cancels
\* subscriptions and disconnects; one bootstrap candidate.
SubsCap == IF NoPending THEN MaxTasks + 1 ELSE 0

NextSubs ==
    \/ WakuConnectCall(SubsCap)
    \/ WakuDisconnectCall(SubsCap)
    \/ \E tp \in Topics : WakuSubscribeCall(tp, SubsCap, MaxSubscribes + 1)
    \/ \E s \in DOMAIN subs : WakuUnsubscribeCall(s)
    \/ \E i \in DOMAIN tasks, ok \in BOOLEAN : WakuCreateDone(i, ok)
    \/ \E i \in DOMAIN tasks, ok \in BOOLEAN : WakuStartDone(i, ok)
    \/ \E i \in DOMAIN tasks, ok \in BOOLEAN : WakuDialDone(i, ok)
    \/ \E i \in DOMAIN tasks, ok \in BOOLEAN : WakuWaitDone(i, ok)
    \/ \E i \in DOMAIN tasks, ok \in BOOLEAN : WakuStopDone(i, ok)
    \/ \E i \in DOMAIN tasks, ok \in BOOLEAN : WakuSubscribeDone(i, ok)
    \/ \E s \in DOMAIN subs, ok \in BOOLEAN : WakuUnsubscribeDone(s, ok)

InitSubs == Init /\ svc = "waku" /\ bootLen = 1

SpecSubs == InitSubs /\ [][NextSubs]_vars

\* ================================================================= claims
Upto(n) == [k \in 1..n |-> k]
Has(evs, e) == \E k \in DOMAIN evs : evs[k] = e
Count(evs, name) == Cardinality({k \in DOMAIN evs : evs[k].name = name})
Visible(i) == tasks[i].pc # "gone"
Lifecycle == {"connect", "disconnect", "reconnect"}
Started == Len(tasks') = Len(tasks) + 1
Newest == tasks'[Len(tasks')]

\* C1: every dial sequence of WakuService (connect or reconnection cycle) takes
\* the candidates strictly in list order, has at most one dial in flight (the
\* last one begun), uses the first candidate whose dial succeeded, and begins
\* no dial after that success.
C1_DialOrder ==
    svc = "waku" =>
    \A i \in DOMAIN tasks :
        (Visible(i) /\ tasks[i].kind \in {"connect", "reconnect"}) =>
        LET t == tasks[i] IN
        /\ \A k \in DOMAIN t.dials : t.dials[k].peer = k
        /\ Len(t.dials) <= bootLen
        /\ t.pc = "dial" => (t.idx = Len(t.dials) /\ t.errors = Upto(t.idx - 1) /\ t.used = 0)
        /\ t.used # 0 => (t.used = Len(t.dials) /\ t.errors = Upto(t.used - 1) /\ t.connected)
        /\ t.pc = "wait" => t.used # 0
        /\ (t.kind = "connect" /\ t.result = "resolved" /\ t.dials # <<>>) => t.used # 0

C1_Witness ==
    \E i \in DOMAIN tasks :
        /\ svc = "waku" /\ tasks[i].kind = "connect" /\ JustSettled(i)
        /\ tasks[i].result = "resolved" /\ bootLen = 2
        /\ tasks[i].used = 1 /\ Len(tasks[i].dials) = 1

\* C2: when no candidate of the bootstrap list could be dialed, the dial
\* sequence ends in BOOTSTRAP_FAILED with exactly one error per candidate, in
\* candidate order, every candidate having been tried exactly once; connect
\* rejects and the error event carries BOOTSTRAP_FAILED.
C2_BootstrapExhausted ==
    svc = "waku" =>
    \A i \in DOMAIN tasks :
        (JustSettled(i) /\ tasks[i].kind \in {"connect", "reconnect"}) =>
        LET t == tasks[i] IN
        /\ t.thrown = "BOOTSTRAP_FAILED" =>
              /\ t.errors = Upto(bootLen)
              /\ Len(t.dials) = bootLen
              /\ \A k \in DOMAIN t.dials : t.dials[k].peer = k
              /\ t.used = 0
              /\ t.emitted[Len(t.emitted)] = ErrorEvent(Err(TRUE, "BOOTSTRAP_FAILED"))
              /\ t.kind = "connect" => t.result = "rejected"
        /\ (t.dials # <<>> /\ t.used = 0) => t.thrown = "BOOTSTRAP_FAILED"

C2_Witness ==
    \E i \in DOMAIN tasks :
        /\ svc = "waku" /\ tasks[i].kind = "connect" /\ JustSettled(i)
        /\ tasks[i].thrown = "BOOTSTRAP_FAILED" /\ bootLen = 2
        /\ \A k \in DOMAIN tasks[i].dials : tasks[i].dials[k].node # 0

\* C3: a connect() call made while the status is 'connecting' or 'connected'
\* returns at its guard: it begins no connection attempt (no node creation and
\* dial sequence, no health probe sequence) and changes nothing, so the attempt
\* that is under way, or the one that connected, stays the only one.
C3_ConnectIdempotent ==
    [][/\ (Started /\ Newest.kind = "connect") => status \notin {"connecting", "connected"}
       /\ (status \in {"connecting", "connected"} /\ noop' = "connect" /\ noop # "connect") =>
              /\ UNCHANGED <<status, wakuRes, codexRes>>
              /\ tasks' = old]_vars

C3_Witness ==
    /\ noop = "connect" /\ status = "connecting"
    /\ Cardinality(TasksOf("connect")) = 1
    /\ \E i \in TasksOf("connect") : Pending(i) /\ tasks[i].pc \in {"dial", "health"}
    /\ Len(tasks) < MaxTasks

\* C4: no connect or disconnect body, and no reconnection cycle, begins while
\* another of them is suspended at an await.
C4_TotallyOrdered ==
    [][(Started /\ Newest.kind \in Lifecycle) =>
          \A i \in DOMAIN tasks : ~(Pending(i) /\ tasks[i].kind \in Lifecycle)]_vars

\* C5: a connect() that fails leaves the status 'error', has emitted
\* statusChange('error') and then exactly one typed 'error' event, has emitted
\* no 'connect' event, and rejects.
C5_ConnectFailure ==
    \A i \in DOMAIN tasks :
        (JustSettled(i) /\ tasks[i].kind = "connect" /\ tasks[i].thrown # "none") =>
        LET t == tasks[i]
            n == Len(t.emitted) IN
        /\ status = "error"
        /\ t.result = "rejected"
        /\ n >= 2
        /\ t.emitted[n - 1] = StatusChange("error")
        /\ t.emitted[n].name = "error" /\ t.emitted[n].typed
        /\ Count(t.emitted, "error") = 1
        /\ Count(t.emitted, "connect") = 0

\* C6: a connect() called in status 'idle' that succeeds, no other call having
\* been accepted before it settles, has emitted exactly
\* statusChange('connecting'), statusChange('connected'), 'connect' and leaves
\* the status 'connected', whatever number of candidates failed before the one
\* that succeeded: the failures are recorded only in the local error list, one
\* per failed candidate and none for the one used, and produce no 'error' event
\* and no 'error' status.
C6_SuccessSequence ==
    (svc = "waku" /\ Len(tasks) = 1 /\ JustSettled(1) /\ tasks[1].kind = "connect"
        /\ tasks[1].at = "idle" /\ tasks[1].result = "resolved") =>
    /\ tasks[1].emitted = <<StatusChange("connecting"), StatusChange("connected"), ConnectEvent>>
    /\ status = "connected"
    /\ tasks[1].used = Len(tasks[1].dials)
    /\ tasks[1].errors = Upto(tasks[1].used - 1)

C6_Witness ==
    /\ svc = "waku" /\ Len(tasks) = 1 /\ JustSettled(1) /\ tasks[1].kind = "connect"
    /\ tasks[1].result = "resolved" /\ tasks[1].at = "idle" /\ bootLen = 2
    /\ tasks[1].used = 2 /\ tasks[1].errors = <<1>>

\* C7: when a WakuService.disconnect() resolves, the registry is empty and every
\* subscription was cancelled, no monitoring timer runs, no node is left
\* started, the handle is null, the status is 'disconnected' and 'disconnect'
\* was emitted.
C7_DisconnectReleases ==
    svc = "waku" =>
    \A i \in DOMAIN tasks :
        (JustSettled(i) /\ tasks[i].kind = "disconnect" /\ tasks[i].result = "resolved") =>
        /\ Registered = {}
        /\ \A s \in DOMAIN subs : subs[s].invoked > 0
        /\ timers = {} /\ peerCheckInterval = 0
        /\ \A n \in DOMAIN nodes : nodes[n] # "started"
        /\ node = 0
        /\ status = "disconnected"
        /\ Has(tasks[i].emitted, DisconnectEvent)

\* C8: a disconnect() call made while the status is 'idle' or 'disconnected'
\* returns at its guard: no disconnect body begins, and the status, the handle,
\* the nodes, the subscriptions, the timer and the health cache are unchanged
\* (so no event was emitted and no transport call made).
C8_DisconnectNoop ==
    [][/\ (Started /\ Newest.kind = "disconnect") => status \notin {"idle", "disconnected"}
       /\ (status \in {"idle", "disconnected"} /\ noop' = "disconnect" /\ noop # "disconnect") =>
              /\ UNCHANGED <<status, wakuRes, codexRes>>
              /\ tasks' = old]_vars

C8_Witness ==
    /\ noop = "disconnect" /\ status = "disconnected"
    /\ Cardinality(TasksOf("disconnect")) = 1
    /\ Len(tasks) < MaxTasks

\* C9: over any number of disconnect() calls, overlapping or not, a node's
\* stop() is awaited by one call only, and 'disconnect' is emitted only together
\* with the change of status to 'disconnected'.
C9_DisconnectOnce ==
    svc = "waku" =>
    /\ \A i, j \in TasksOf("disconnect") :
          (i # j /\ Pending(i) /\ Pending(j)) => tasks[i].target # tasks[j].target
    /\ \A i \in TasksOf("disconnect") :
          (JustSettled(i) /\ tasks[i].result = "resolved") =>
              /\ Has(tasks[i].emitted, StatusChange("disconnected"))
              /\ status = "disconnected"

\* C10: at most one reconnection cycle is in flight at any time.
C10_OneReconnection ==
    Cardinality({i \in TasksOf("reconnect") : Pending(i)}) <= 1

\* C11: when a reconnection cycle fails, an 'error' event is emitted, the status
\* is not 'error', and a firing of the monitoring timer that still observes zero
\* peers would start another cycle (the status the timer tests is 'connected').
C11_ReconnectFailureRetryable ==
    svc = "waku" =>
    \A i \in TasksOf("reconnect") :
        (JustSettled(i) /\ tasks[i].thrown # "none") =>
        /\ Count(tasks[i].emitted, "error") >= 1
        /\ status # "error"
        /\ status = "connected"

\* C12: the firing of the monitoring timer that observes zero peers emits
\* 'error' and begins one reconnection cycle, leaves the status 'connected'
\* and emits no statusChange.
C12_PeerLossNoTransition ==
    [][(Started /\ Newest.kind = "reconnect") =>
          /\ Count(Newest.emitted, "error") = 1
          /\ status = "connected" /\ status' = "connected"
          /\ Count(Newest.emitted, "statusChange") = 0]_vars

Delivery == Len(delivered') = Len(delivered) + 1
Latest == delivered'[Len(delivered')]

\* C13: no message reaches the application handler of a subscription whose
\* cancellation function has been called (by the user or by disconnect()).
C13_NoDeliveryAfterCancel ==
    [][(Delivery /\ Latest.outcome = "handled") => subs[Latest.sub].invoked = 0]_vars

\* C14: the application handler is called exactly for the messages that have a
\* payload, decode, and pass protocol.validate; any other message is dropped
\* inside the callback (returned, caught or dropped, never raised), the hook's
\* list is left alone, and no delivery changes the status, the handle, the
\* registry or the timer.
C14_OnlyValidDelivered ==
    [][Delivery =>
          /\ Latest.outcome = "handled" <=> Latest.kind = "valid"
          /\ Latest.outcome \in {"returned", "caught", "dropped", "handled"}
          /\ Latest.kind # "valid" => messages' = messages
          /\ Latest.kind = "valid" => Len(messages') = Len(messages) + 1
          /\ UNCHANGED <<status, wakuRes>>]_vars

C14_Witness ==
    /\ Len(delivered) = 2 /\ status = "connected"
    /\ delivered[1].kind \in {"nopayload", "undecodable", "invalid"}
    /\ delivered[2].kind = "valid"
    /\ Len(messages) = 1 /\ messages[1].id = 2

\* The messages the transport delivered to subscription s that were valid, in
\* the transport's order, and the part of the hook's list that came from s.
ValidOf(s) ==
    SelectSeq([k \in DOMAIN delivered |-> [sub |-> delivered[k].sub, id |-> k]],
              LAMBDA e : e.sub = s /\ delivered[e.id].kind = "valid")
ListOf(s) == SelectSeq(messages, LAMBDA e : e.sub = s)

\* C15: for every subscription, the messages the handler put into the hook's
\* list are exactly the valid messages the transport delivered to it, in the
\* transport's order.
C15_Fifo ==
    svc = "waku" => \A s \in DOMAIN subs : ListOf(s) = ValidOf(s)

C15_Witness ==
    \E s \in DOMAIN subs :
        /\ Len(ListOf(s)) = 2
        /\ ListOf(s)[1].id < ListOf(s)[2].id

TransferStarted == Len(transfers') = Len(transfers) + 1
NewestTransfer == transfers'[Len(transfers')]

\* C16: a subscribe or publish of WakuService called while isConnected() is
\* false, and an upload or download of CodexService called while its
\* isConnected() is false, fails with NOT_CONNECTED, awaits no transport call,
\* and leaves the status, the handle, the registry, the timer and the health
\* cache unchanged.
C16_NotConnected ==
    [][/\ (Started /\ Newest.kind \in {"subscribe", "publish"}
             /\ ~(status = "connected" /\ node # 0)) =>
              /\ Newest.result = "rejected" /\ Newest.thrown = "NOT_CONNECTED"
              /\ Newest.pc = "done"
              /\ UNCHANGED <<status, wakuRes>>
       /\ (TransferStarted /\ status # "connected") =>
              /\ NewestTransfer.status = "failed" /\ NewestTransfer.thrown = "NOT_CONNECTED"
              /\ NewestTransfer.pc = "done"
              /\ UNCHANGED <<status, codexRes>>]_vars

C16_Witness ==
    /\ svc = "waku" /\ status = "connecting" /\ node # 0
    /\ \E i \in TasksOf("publish") :
           JustSettled(i) /\ tasks[i].thrown = "NOT_CONNECTED" /\ tasks[i].at = "connecting"

\* C17: getPeers() returns the empty list in every state in which the status
\* is not 'connected'.
C17_GetPeersEmptyUnlessConnected ==
    (svc = "waku" /\ status # "connected") => getPeers = << >>

\* A cache entry exists and is younger than the freshness window.
Fresh == lastStatusCheck # -1 /\ now - lastStatusCheck < 30000

\* C18: a checkHealth call made without forceCheck while a stored result is
\* younger than 30 s sends no probe and returns the stored value, leaving the
\* cache as it is; a call made when the stored result is 30 s old or older (or
\* there is none), and every call with forceCheck, sends the probe.
C18_HealthCache ==
    [][(Started /\ Newest.kind = "health") =>
          /\ (~Newest.force /\ Fresh) =>
                 /\ Newest.idx = 0
                 /\ Newest.result = "resolved"
                 /\ Newest.connected = lastNodeActive
                 /\ UNCHANGED <<lastStatusCheck, lastNodeActive>>
          /\ (Newest.force \/ ~Fresh) =>
                 /\ Newest.idx = 1
                 /\ Newest.result = "pending"
                 /\ Newest.pc = "probe"]_vars

\* C18 witness: 29 s after a successful probe a call has returned the cached
\* true without a probe.
C18_Witness ==
    \E i \in TasksOf("health") :
        /\ JustSettled(i) /\ tasks[i].idx = 0 /\ ~tasks[i].force
        /\ tasks[i].connected
        /\ now - lastStatusCheck = 29000

\* C19: when the probe of a checkHealth call fails, the call resolves with
\* false (it does not reject) and {false, now} is stored; a call without
\* forceCheck made while a stored false is younger than 30 s returns false and
\* sends no probe.
C19_FailureCached ==
    [][/\ \A i \in DOMAIN tasks :
              (/\ tasks[i].kind = "health" /\ tasks[i].pc = "probe"
               /\ tasks'[i].pc = "done" /\ ~tasks'[i].connected)
              => /\ tasks'[i].result = "resolved"
                 /\ tasks'[i].thrown = "none"
                 /\ lastNodeActive' = FALSE
                 /\ lastStatusCheck' = now
       /\ (Started /\ Newest.kind = "health" /\ ~Newest.force /\ Fresh /\ ~lastNodeActive)
              => /\ Newest.idx = 0
                 /\ Newest.result = "resolved"
                 /\ ~Newest.connected]_vars

\* C19 witness: after a failed probe was stored, a later call has returned the
\* cached false without a probe.
C19_Witness ==
    \E i \in TasksOf("health") :
        /\ JustSettled(i) /\ tasks[i].idx = 0 /\ ~tasks[i].force
        /\ ~tasks[i].connected
        /\ lastStatusCheck # -1 /\ ~lastNodeActive
        /\ now - lastStatusCheck = 29000

\* C20: the progress recorded for a transfer never decreases, through progress
\* callbacks and through the terminal settlement.
C20_ProgressMonotone ==
    [][\A t \in DOMAIN transfers :
          transfers'[t].progress >= transfers[t].progress]_vars

\* C21: a transfer enters a terminal state once, and once it is there no step
\* (a late progress callback, an abort that lost the race with completion)
\* changes its status or its recorded progress.
C21_TerminalOnce ==
    [][\A t \in DOMAIN transfers :
          /\ transfers'[t].settled <= 1
          /\ transfers[t].pc = "done" =>
                /\ transfers'[t].pc = "done"
                /\ transfers'[t].status = transfers[t].status
                /\ transfers'[t].progress = transfers[t].progress]_vars

\* C22: a transfer whose signal was aborted while its request was in flight
\* settles with an outcome that is not one of a failed transfer.
C22_CancelledNotFailed ==
    \A t \in DOMAIN transfers :
        transfers[t].aborted = "inflight" =>
            /\ transfers[t].pc = "done"
            /\ transfers[t].thrown \notin {"UPLOAD_FAILED", "DOWNLOAD_FAILED"}
            /\ transfers[t].status # "failed"

\* C23: the step in which a transfer fails (at its call, when its request
\* settles, or by an abort) changes the entry of no other transfer, and a new
\* transfer is accepted whatever the state of the others.
C23_FailureIsolated ==
    /\ [][\A t \in DOMAIN transfers' :
             (/\ transfers'[t].thrown # "none"
              /\ (t \in DOMAIN transfers => transfers[t].thrown = "none"))
             => \A u \in DOMAIN transfers \ {t} : transfers'[u] = transfers[u]]_vars
    /\ [](Len(transfers) < MaxTransfers + 1 =>
             ENABLED CodexTransferCall("upload", FALSE, MaxTransfers + 1))

\* C23 witness: a download has failed while an upload begun before it is still
\* in flight at 50.
C23_Witness ==
    /\ Len(transfers) = 2
    /\ transfers[1].status = "uploading" /\ transfers[1].progress = 50
    /\ transfers[2].status = "failed" /\ transfers[2].thrown = "DOWNLOAD_FAILED"

\* C24: the value a progress callback received for a request in flight is the
\* fraction loaded / total, in [0, 1].
C24_Fraction ==
    \A t \in DOMAIN transfers :
        (transfers[t].pc = "request" /\ transfers[t].total # 0) =>
            /\ transfers[t].progress * transfers[t].total = transfers[t].loaded
            /\ transfers[t].progress <= 1

\* C25: parseUploadResponse throws for no response text, and the identifier it
\* returns is the top-level id if there is a non-empty one, else the top-level
\* cid, else data.id, else data.cid, else (and for a text that is not a JSON
\* object) the trimmed response text.
C25_ParsePrecedence ==
    \A k \in DOMAIN parsed :
        LET r == parsed[k].in
            o == parsed[k].out
            has(v) == v \notin {"absent", "empty"}
            raw == [value |-> "text", text |-> <<[r EXCEPT !.pad = FALSE]>>]
            field(v) == [value |-> v, text |-> << >>]
        IN  /\ ~o.threw
            /\ o.cid =
                 IF r.json # "object" THEN raw
                 ELSE IF has(r.id) THEN field("I")
                 ELSE IF has(r.cid) THEN field("C")
                 ELSE IF r.data.json = "object" /\ has(r.data.id) THEN field("DI")
                 ELSE IF r.data.json = "object" /\ has(r.data.cid) THEN field("DC")
                 ELSE raw

\* C25 witness: a padded object with id and cid empty, data.id absent and
\* data.cid set was parsed to data.cid.
C25_Witness ==
    \E k \in DOMAIN parsed :
        /\ parsed[k].in.json = "object" /\ parsed[k].in.pad
        /\ parsed[k].in.id = "empty" /\ parsed[k].in.cid = "empty"
        /\ parsed[k].in.data.json = "object" /\ parsed[k].in.data.id = "absent"
        /\ parsed[k].out.cid.value = "DC"

\* The step is an emit; its event; the registration numbers of the handlers it
\* called, in the order of the calls.
EmitStep == emitLog'.n = emitLog.n + 1
Emitted == emitLog'.op.event
CalledRegs == [j \in DOMAIN emitLog'.calls |-> emitLog'.calls[j].reg]

\* C26: an emit never throws to its caller and calls every handler that was
\* registered for the event when it began exactly once, whichever of them
\* throw.
C26_ThrowIsolated ==
    [][EmitStep =>
          /\ ~emitLog'.propagated
          /\ \A i \in DOMAIN handlers[Emitted] :
                 Cardinality({j \in DOMAIN CalledRegs :
                                 CalledRegs[j] = handlers[Emitted][i].reg}) = 1]_vars

\* C26 witness: the first handler called threw and the second was called.
C26_Witness ==
    /\ emitLog.op.name = "emit" /\ Len(emitLog.calls) = 2
    /\ emitLog.calls[1].threw /\ ~emitLog.calls[2].threw
    /\ emitLog.errors = 1 /\ ~emitLog.propagated

\* C27: when an emit returns, the handlers of its event have been called in
\* the order of their registration, and no handler registered for another
\* event only has been called.
C27_RegistrationOrder ==
    [][EmitStep =>
          /\ Len(CalledRegs) = Len(handlers[Emitted])
          /\ \A j, k \in DOMAIN CalledRegs : j < k => CalledRegs[j] < CalledRegs[k]
          /\ \A j \in DOMAIN CalledRegs :
                 \E i \in DOMAIN handlers[Emitted] : handlers[Emitted][i].reg = CalledRegs[j]
          /\ \A e \in DOMAIN handlers \ {Emitted} : handlers'[e] = handlers[e]]_vars

\* C27 witness: two handlers were called, the earlier registered first, while
\* nothing was registered for the other event.
C27_Witness ==
    /\ emitLog.op.name = "emit" /\ Len(emitLog.calls) = 2
    /\ emitLog.calls[1].reg = 1 /\ emitLog.calls[2].reg = 2
    /\ ~emitLog.calls[1].threw /\ ~emitLog.calls[2].threw

\* C28: the handler of a once registration is called at most once.
C28_OnceAtMostOnce ==
    \A w \in DOMAIN emitLog.onceCalls : emitLog.onceCalls[w] <= 1

\* C29: no function is twice in the set of an event; on with a function that
\* is registered for the event changes nothing; after off the function is not
\* registered for the event, the other handlers are as before, and off of a
\* function that is not registered changes nothing; an emit calls a function
\* registered with on once.
C29_SetByIdentity ==
    [][LET op == emitLog'.op
           plain(set, f) == {i \in DOMAIN set : set[i].wrapper = 0 /\ set[i].fn = f}
           was == op.event \in DOMAIN handlers /\ plain(handlers[op.event], op.fn) # {}
       IN  /\ \A e \in DOMAIN handlers, f \in Handlers :
                  Cardinality(plain(handlers'[e], f)) <= 1
           /\ (op.name = "on" /\ was) =>
                  /\ handlers' = handlers
                  /\ Len(handlers'[op.event]) = Len(handlers[op.event])
           /\ op.name = "off" =>
                  /\ plain(handlers'[op.event], op.fn) = {}
                  /\ Len(handlers'[op.event]) = Len(handlers[op.event]) - (IF was THEN 1 ELSE 0)
                  /\ \A e \in DOMAIN handlers \ {op.event} : handlers'[e] = handlers[e]
                  /\ ~was => handlers' = handlers
           /\ EmitStep =>
                  \A f \in Handlers :
                      Cardinality({j \in DOMAIN emitLog'.calls :
                                      emitLog'.calls[j].wrapper = 0
                                      /\ emitLog'.calls[j].fn = f}) <= 1]_vars

\* C29 witness: on was called with the function that is the only one
\* registered for the event, and listenerCount is 1.
C29_Witness ==
    /\ emitLog.op.name = "on" /\ emitLog.op.present
    /\ emitLog.regs = 2 /\ Len(emitLog.onceCalls) = 0
    /\ Len(handlers[emitLog.op.event]) = 1

\* C30: a reconnection cycle that was begun settles, and the step in which it
\* succeeds sets the status to 'connected' and emits statusChange('connected'),
\* with no connect() call made since the peers were lost.
C30_SilentReconnect ==
    /\ [][\A i \in DOMAIN tasks :
             (/\ tasks[i].kind = "reconnect" /\ Pending(i)
              /\ tasks'[i].result = "resolved" /\ tasks'[i].thrown = "none")
             => /\ status' = "connected"
                /\ status # "connected"
                /\ Has(tasks'[i].emitted, StatusChange("connected"))
                /\ \A j \in DOMAIN tasks : j > i => tasks[j].kind # "connect"]_vars
    /\ \A i \in 1..(MaxTasks + 1) :
           (i \in TasksOf("reconnect") /\ Pending(i))
               ~> (i \in TasksOf("reconnect") /\ ~Pending(i))

\* C30 witness: a reconnection cycle has just succeeded; the service, which was
\* in 'error' since the peers were lost, is 'connected' again.
C30_Witness ==
    \E i \in TasksOf("reconnect") :
        /\ JustSettled(i) /\ tasks[i].result = "resolved" /\ tasks[i].thrown = "none"
        /\ status = "connected"
        /\ tasks[i].emitted = <<StatusChange("error"), ErrorEvent(Err(TRUE, "PEERS_LOST")),
                                StatusChange("connected")>>

\* C31: in every reachable state of a WakuService, status 'connected' goes
\* with a non-null node handle, so isConnected() and status = 'connected' agree.
C31_ConnectedHasNode ==
    svc = "waku" =>
    /\ status = "connected" => node # 0
    /\ isConnected <=> status = "connected"

\* C32: once a disconnect() has resolved (the status is 'disconnected'), the
\* status stays 'disconnected' until a connect() call is accepted: no step of a
\* connect or of a reconnection cycle already in flight changes it.
C32_StaysDisconnected ==
    [][(status = "disconnected" /\ ~(Started /\ Newest.kind = "connect")) =>
          status' = "disconnected"]_vars

\* C33: at most one peer-monitoring interval timer of a WakuService runs at
\* any time, and it is the one stored in peerCheckInterval.
C33_OneTimer ==
    svc = "waku" =>
    /\ Cardinality(timers) <= 1
    /\ timers \subseteq {peerCheckInterval}

\* C34: while the status of a WakuService is 'idle' or 'disconnected', no
\* peer-monitoring timer runs.
C34_NoTimerWhenDown ==
    (svc = "waku" /\ status \in {"idle", "disconnected"}) => timers = {}

\* C35: at most one transport node of a WakuService is started and not yet
\* stopped at any time.
C35_OneNode ==
    svc = "waku" =>
    Cardinality({n \in DOMAIN nodes : nodes[n] = "started"}) <= 1

\* The events the instance emits in a step: those of the call or cycle the
\* step begins, or those the step adds to the record of a pending one.
StepEvents ==
    IF Started THEN Newest.emitted
    ELSE IF \E i \in DOMAIN tasks : Pending(i) /\ Len(tasks'[i].emitted) > Len(tasks[i].emitted)
         THEN LET i == CHOOSE i \in DOMAIN tasks :
                           Pending(i) /\ Len(tasks'[i].emitted) > Len(tasks[i].emitted)
              IN  SubSeq(tasks'[i].emitted, Len(tasks[i].emitted) + 1, Len(tasks'[i].emitted))
         ELSE << >>

\* The status the statusChange emissions evs lead to from the status cur, each
\* emission carrying the new value; "repeated" when an emission carries the
\* value the status already had before it.
RECURSIVE StatusAfter(_, _)
StatusAfter(cur, evs) ==
    IF evs = << >> THEN cur
    ELSE IF Head(evs).name # "statusChange" THEN StatusAfter(cur, Tail(evs))
    ELSE IF Head(evs).arg = cur THEN "repeated"
    ELSE StatusAfter(Head(evs).arg, Tail(evs))

\* C36: statusChange is emitted exactly when the status changes (both
\* services): in every step, each statusChange carries a value different from
\* the status before it (the status at the start of the step, or the value of
\* the emission before it), and the status after the step is the value of the
\* last emission, or the status before the step when nothing was emitted.
C36_StatusChangeExact ==
    [][status' = StatusAfter(status, StepEvents)]_vars

\* A reconnection cycle failed while the status was already 'error': its
\* second handleError emitted 'error' without a statusChange.
C36_Witness ==
    /\ svc = "waku" /\ status = "error"
    /\ \E i \in TasksOf("reconnect") :
           /\ JustSettled(i) /\ tasks[i].thrown # "none"
           /\ Count(tasks[i].emitted, "error") = 2
           /\ Count(tasks[i].emitted, "statusChange") = 1
           /\ tasks[i].emitted[1] = StatusChange("error")

\* C37: when a WakuService.disconnect() resolves, the cancellation function of
\* every subscription that its owner has not cancelled was called by that
\* disconnect or an earlier one, also when two subscriptions share a topic key.
C37_DisconnectCancelsAll ==
    svc = "waku" =>
    \A i \in TasksOf("disconnect") :
        (JustSettled(i) /\ tasks[i].result = "resolved") =>
        \A s \in DOMAIN subs : ~subs[s].user => subs[s].invoked > 0

\* C38: once removeUpload / removeDownload or clearUploads / clearDownloads has
\* taken an entry out of the hook's list, no entry with that id is in the list
\* again, whatever the transfer reports afterwards.
C38_RemovedStaysRemoved ==
    \A t \in DOMAIN transfers : transfers[t].removed => ~transfers[t].listed

\* C39: when a disconnect() of the hook has resolved, no service instance the
\* hook created is in status 'connecting' or 'connected', and none has the
\* hook's status and error listeners registered.
C39_HookControlsInstances ==
    (hook.last # 0 /\ hook.calls[hook.last].kind = "disconnect"
                   /\ hook.calls[hook.last].result = "resolved") =>
    \A k \in DOMAIN insts :
        /\ insts[k].status \notin {"connecting", "connected"}
        /\ ~insts[k].listening

\* C40: a CodexService.connect() called while a stored health result is
\* younger than 30 s sends no health probe and leaves the cache as it is; when
\* the stored result is false the call fails with NODE_UNHEALTHY and status
\* 'error', when it is true the call goes on to the node-info request.
C40_ConnectUsesCache ==
    [][/\ (svc = "codex" /\ Started /\ Newest.kind = "connect" /\ Fresh) =>
              /\ Newest.idx = 0
              /\ Newest.connected = lastNodeActive
              /\ UNCHANGED <<lastStatusCheck, lastNodeActive>>
       /\ \A i \in DOMAIN tasks :
              (/\ svc = "codex" /\ tasks[i].kind = "connect" /\ tasks[i].pc = "health"
               /\ tasks[i].idx = 0 /\ tasks'[i].pc # "health") =>
              /\ UNCHANGED <<lastStatusCheck, lastNodeActive>>
              /\ IF tasks[i].connected
                 THEN tasks'[i].pc = "info" /\ tasks'[i].result = "pending"
                 ELSE /\ tasks'[i].result = "rejected"
                      /\ tasks'[i].thrown = "NODE_UNHEALTHY"
                      /\ status' = "error"]_vars

\* C40 witness: 29 s after a failed probe a connect() has failed with
\* NODE_UNHEALTHY without sending a probe.
C40_Witness ==
    /\ svc = "codex" /\ status = "error"
    /\ lastStatusCheck # -1 /\ ~lastNodeActive /\ now - lastStatusCheck = 29000
    /\ \E i \in TasksOf("connect") :
           /\ JustSettled(i) /\ tasks[i].idx = 0
           /\ tasks[i].result = "rejected" /\ tasks[i].thrown = "NODE_UNHEALTHY"

====
